---------------------------- MODULE Spec2Model ----------------------------
(***************************************************************************)
(* A model of the ws-rs WebSocket endpoint: the frame codec (frame.rs,     *)
(* protocol.rs), the per-connection state machine (connection.rs) and the  *)
(* reactor that owns the connection table and the command queue (io.rs).   *)
(*                                                                         *)
(* Bytes are naturals in 0..255, byte buffers are sequences of bytes.      *)
(* A connection is a record; its methods are operators from a connection   *)
(* record (and the inputs of the call) to the connection record after the  *)
(* call, together with the Result the method returns.  The reactor's       *)
(* handlers are the actions.                                               *)
(***************************************************************************)
EXTENDS Integers, Sequences, FiniteSets, TLC

VARIABLES
    connections,         \* io.rs Handler.connections: token -> connection or Vacant
    next_connection_id,  \* io.rs Handler.next_connection_id
    listener,            \* io.rs Handler.listener is Some
    queue,               \* io.rs Handler.queue_rx: the commands in flight
    rstate,              \* io.rs Handler.state: "Active" or "Inactive"
    loop,                \* position of Handler::run / event_loop
    lost,                \* connections handed to Factory::connection_lost, in order
    timer,               \* io.rs Handler.timer: the pending timeouts
    last,                \* the step taken last: the call, its input, what it met
    produced,            \* per producer, the number of commands its Sender got accepted
    taken                \* the commands handle_queue was called with, in order

vars == <<connections, next_connection_id, listener, queue, rstate, loop, lost,
          timer, last, produced, taken>>

-----------------------------------------------------------------------------
(* Bounds of the model.                                                    *)

\* Longest message payload handed to send_message.
MaxPayload == 5
\* Frames one connection buffers for output over its life.
MaxFrames == 3
\* Calls of the send methods on one connection over its life.
MaxCalls == 2

-----------------------------------------------------------------------------
(* Small helpers on sequences and bytes.                                   *)

Byte == 0..255

Min(a, b) == IF a < b THEN a ELSE b
Max(a, b) == IF a > b THEN a ELSE b

RECURSIVE Concat(_)
Concat(ss) == IF ss = <<>> THEN <<>> ELSE Head(ss) \o Concat(Tail(ss))

Drop(s, n) == SubSeq(s, n + 1, Len(s))
Take(s, n) == SubSeq(s, 1, n)

\* u8 ^ u8, bit by bit.
RECURSIVE BitXor(_, _)
BitXor(a, b) ==
    IF a = 0 THEN b
    ELSE IF b = 0 THEN a
    ELSE ((a + b) % 2) + 2 * BitXor(a \div 2, b \div 2)

\* Big-endian bytes of an unsigned integer of n bytes.
RECURSIVE BeBytes(_, _)
BeBytes(v, n) ==
    IF n = 0 THEN <<>> ELSE BeBytes(v \div 256, n - 1) \o <<v % 256>>

-----------------------------------------------------------------------------
(* protocol.rs: OpCode.                                                    *)

OpCodes == {"Continue", "Text", "Binary", "Close", "Ping", "Pong"}

OpCodeIntoU8(op) ==
    CASE op = "Continue" -> 0
      [] op = "Text"     -> 1
      [] op = "Binary"   -> 2
      [] op = "Close"    -> 8
      [] op = "Ping"     -> 9
      [] op = "Pong"     -> 10
      [] OTHER           -> 8

-----------------------------------------------------------------------------
(* frame.rs: Frame.  mask is <<>> for None and four bytes for Some.        *)

NoMask == <<>>

FrameDefault ==
    [finished |-> TRUE, rsv1 |-> FALSE, rsv2 |-> FALSE, rsv3 |-> FALSE,
     opcode |-> "Close", length |-> 0, mask |-> NoMask, payload |-> <<>>,
     header_length |-> 0]

apply_mask(buf, mask) ==
    [i \in 1..Len(buf) |-> BitXor(buf[i], mask[((i - 1) % 4) + 1])]

is_final(f) == f.finished
is_masked(f) == f.mask # NoMask
is_control(f) == f.opcode \in {"Close", "Ping", "Pong"}
frame_len(f) == f.length + f.header_length

\* set_mask leaving the frame without a mask.
set_mask_skipped(f, generated) == f

\* Frame::mask (set_mask in connection.rs): the mask is the generated one.
set_mask(f, generated) == [f EXCEPT !.mask = generated]

FrameMessage(data, code, finished) ==
    [FrameDefault EXCEPT !.finished = finished, !.opcode = code,
                         !.length = Len(data), !.payload = data]

\* Frame::pong leaving the data out.
FramePong_empty(data) == [FrameDefault EXCEPT !.opcode = "Pong"]

FramePong(data) ==
    [FrameDefault EXCEPT !.opcode = "Pong", !.length = Len(data), !.payload = data]

FramePing(data) ==
    [FrameDefault EXCEPT !.opcode = "Ping", !.length = Len(data), !.payload = data]

\* The header Frame::format writes: the first two bytes and the extended length.
FormatHeader(f) ==
    LET one == (IF f.finished THEN 128 ELSE 0) + (IF f.rsv1 THEN 64 ELSE 0)
               + (IF f.rsv2 THEN 32 ELSE 0) + (IF f.rsv3 THEN 16 ELSE 0)
               + OpCodeIntoU8(f.opcode)
        two == IF is_masked(f) THEN 128 ELSE 0
    IN  IF f.length < 126 THEN <<one, two + f.length>>
        ELSE IF f.length <= 65535 THEN <<one, two + 126>> \o BeBytes(f.length, 2)
        ELSE <<one, two + 127>> \o BeBytes(f.length, 8)

\* Frame::format: header, then (masked frames) the mask and the payload with
\* the mask applied, else the payload as it is.
Format(f) ==
    IF is_masked(f)
    THEN FormatHeader(f) \o f.mask \o apply_mask(f.payload, f.mask)
    ELSE FormatHeader(f) \o f.payload

\* The longest payload of a control frame Frame::parse accepts.
ControlLimit == 125

\* protocol.rs, From<u8> for OpCode.
OpCodeFromU8(b) ==
    CASE b = 0  -> "Continue"
      [] b = 1  -> "Text"
      [] b = 2  -> "Binary"
      [] b = 8  -> "Close"
      [] b = 9  -> "Ping"
      [] b = 10 -> "Pong"
      [] OTHER  -> "Bad"

\* The unsigned integer a big-endian byte string holds (read_uint).
RECURSIVE BeValue(_)
BeValue(bs) ==
    IF bs = <<>> THEN 0 ELSE 256 * BeValue(Take(bs, Len(bs) - 1)) + bs[Len(bs)]

\* The results of Frame::parse: Ok(None), Err(Protocol) and Ok(Some(frame))
\* with the number of bytes the cursor has moved over.
ParseNone == [kind |-> "None"]
ParseErr == [kind |-> "Err"]
Parsed(f) == [kind |-> "Frame", frame |-> f, used |-> frame_len(f)]

\* The bytes of the extended length that follow a 7-bit length.
LengthBytes(len7) == IF len7 = 126 THEN 2 ELSE IF len7 = 127 THEN 8 ELSE 0

\* Frame::parse after the first two bytes and the extended length are there:
\* the length, the control-frame check, the mask, and the payload, which is
\* stored as it is on the wire.
parse_body(buf, first, second, ext) ==
    LET length == IF ext = 0 THEN second % 128 ELSE BeValue(SubSeq(buf, 3, 2 + ext))
        header_length == 2 + ext + (IF second >= 128 THEN 4 ELSE 0)
    IN  IF OpCodeFromU8(first % 16) \in {"Close", "Ping", "Pong"}
           /\ length > ControlLimit
        THEN ParseErr
        ELSE IF Len(buf) < length + header_length THEN ParseNone
        ELSE Parsed([finished |-> first >= 128,
                     rsv1 |-> (first \div 64) % 2 = 1,
                     rsv2 |-> (first \div 32) % 2 = 1,
                     rsv3 |-> (first \div 16) % 2 = 1,
                     opcode |-> OpCodeFromU8(first % 16),
                     length |-> length,
                     mask |-> IF second >= 128
                              THEN SubSeq(buf, 3 + ext, 6 + ext) ELSE NoMask,
                     payload |-> SubSeq(buf, header_length + 1,
                                        header_length + length),
                     header_length |-> header_length])

\* Frame::parse on a cursor at the start of buf with size = Len(buf).
Parse(buf) ==
    IF Len(buf) < 2 THEN ParseNone
    ELSE IF OpCodeFromU8(buf[1] % 16) = "Bad" THEN ParseErr
    ELSE IF Len(buf) < 2 + LengthBytes(buf[2] % 128) THEN ParseNone
    ELSE parse_body(buf, buf[1], buf[2], LengthBytes(buf[2] % 128))

\* Frame::into_data: the payload with the mask taken off.
into_data(f) == IF is_masked(f) THEN apply_mask(f.payload, f.mask) ELSE f.payload


\* The target's byte order: u16::to_be and u16::from_be swap the two bytes on
\* a little-endian target and are the identity on a big-endian one.
LittleEndian == TRUE

Swap16(v) == (v % 256) * 256 + (v \div 256)
to_be(v) == IF LittleEndian THEN Swap16(v) ELSE v
from_be(v) == to_be(v)
\* transmute::<u16, [u8; 2]>: the two bytes of v in memory order.
TransmuteU16(v) ==
    IF LittleEndian THEN <<v % 256, v \div 256>> ELSE <<v \div 256, v % 256>>
\* transmute::<[u8; 2], u16>
TransmuteBytes(b) ==
    IF LittleEndian THEN b[1] + 256 * b[2] ELSE 256 * b[1] + b[2]

-----------------------------------------------------------------------------
(* protocol.rs: CloseCode.  A close code is <<name, 0>> for a named code  *)
(* and <<"Other", n>> for CloseCode::Other(n).                             *)

CodeNames ==
    {"Normal", "Away", "Protocol", "Unsupported", "Status", "Abnormal",
     "Invalid", "Policy", "Size", "Extension", "Error", "Restart", "Again",
     "Tls", "Empty"}

CC(name) == <<name, 0>>
Other(n) == <<"Other", n>>

\* The match in impl Into<u16> for CloseCode: the value of each code.
CloseCodeValue(code) ==
    CASE code[1] = "Normal"      -> 1000
      [] code[1] = "Away"        -> 1001
      [] code[1] = "Protocol"    -> 1002
      [] code[1] = "Unsupported" -> 1003
      [] code[1] = "Status"      -> 1005
      [] code[1] = "Abnormal"    -> 1006
      [] code[1] = "Invalid"     -> 1007
      [] code[1] = "Policy"      -> 1008
      [] code[1] = "Size"        -> 1009
      [] code[1] = "Extension"   -> 1010
      [] code[1] = "Error"       -> 1011
      [] code[1] = "Restart"     -> 1012
      [] code[1] = "Again"       -> 1013
      [] code[1] = "Tls"         -> 1015
      [] code[1] = "Empty"       -> 0
      [] OTHER                   -> code[2]

\* impl Into<u16> for CloseCode: the value, passed through to_be.
CloseCodeIntoU16(code) == to_be(CloseCodeValue(code))

\* impl From<u16> for CloseCode: the argument is passed through from_be first.
CloseCodeFromU16(be_u16) ==
    LET v == from_be(be_u16)
    IN  CASE v = 1000 -> CC("Normal")
          [] v = 1001 -> CC("Away")
          [] v = 1002 -> CC("Protocol")
          [] v = 1003 -> CC("Unsupported")
          [] v = 1005 -> CC("Status")
          [] v = 1006 -> CC("Abnormal")
          [] v = 1007 -> CC("Invalid")
          [] v = 1008 -> CC("Policy")
          [] v = 1009 -> CC("Size")
          [] v = 1010 -> CC("Extension")
          [] v = 1011 -> CC("Error")
          [] v = 1012 -> CC("Restart")
          [] v = 1013 -> CC("Again")
          [] v = 1015 -> CC("Tls")
          [] v = 0    -> CC("Empty")
          [] OTHER    -> Other(v)

\* Frame::close: raw = transmute(code.into().to_be()); the payload is empty for
\* CloseCode::Empty and raw followed by the reason's bytes otherwise.
FrameClose(code, reason) ==
    LET raw == TransmuteU16(to_be(CloseCodeIntoU16(code)))
        payload == IF code[1] = "Empty" THEN <<>> ELSE raw \o reason
    IN  [FrameDefault EXCEPT !.length = Len(payload), !.payload = payload]

-----------------------------------------------------------------------------
(* result.rs: Result<()> and Error.  details is the error's text, as bytes. *)

Ok == [ok |-> TRUE, kind |-> "None", details |-> <<>>]
Err(kind, details) == [ok |-> FALSE, kind |-> kind, details |-> details]
\* The text of an error the library itself raises, cut to its first letter.
Text(first) == <<first>>

Res(c, r) == [c |-> c, r |-> r]

-----------------------------------------------------------------------------
(* lib.rs: Settings.  The numeric settings are set small enough for the    *)
(* buffers to fill and the messages to fragment.                           *)

\* settings.fragment_size
FragmentSize == 2
\* settings.out_buffer_capacity
OutBufferCapacity == 8
\* settings.fragments_capacity
FragmentsCapacity == 2
\* settings.max_connections
MaxConnections == 1
\* settings.queue_size
QueueSize == 3

DefaultSettings ==
    [max_connections |-> MaxConnections, queue_size |-> QueueSize,
     fragments_capacity |-> FragmentsCapacity, fragments_grow |-> TRUE,
     fragment_size |-> FragmentSize,
     out_buffer_capacity |-> OutBufferCapacity, out_buffer_grow |-> TRUE,
     panic_on_internal |-> TRUE, masking_strict |-> FALSE,
     key_strict |-> FALSE, shutdown_on_interrupt |-> TRUE]

-----------------------------------------------------------------------------
(* The user's Handler: what it was called with, and how its hooks answer.  *)

\* on_send_frame: the default returns the frame; an extension may set rsv1;
\* a handler may swallow the frame.
SendHooks == {"default", "rsv1", "none"}

NewHandler(hook) ==
    [opened |-> 0,          \* calls of on_open
     closes |-> <<>>,       \* the (code, reason) of each on_close, in order
     messages |-> 0,        \* calls of on_message
     message_in |-> {},     \* the connection states on_message was called in
     errors |-> <<>>,       \* the kind of each on_error, in order
     shutdowns |-> 0,       \* calls of on_shutdown
     new_timeouts |-> {},   \* the event tokens on_new_timeout was called with
     timeouts |-> {},       \* the event tokens on_timeout was called with
     send_hook |-> hook]

on_open(c) == [c EXCEPT !.handler.opened = @ + 1]
on_close(c, code, reason) ==
    [c EXCEPT !.handler.closes = Append(@, [code |-> code, reason |-> reason])]
on_message(c) ==
    [c EXCEPT !.handler.messages = @ + 1,
              !.handler.message_in = @ \cup {c.state}]
on_error(c, err) == [c EXCEPT !.handler.errors = Append(@, err.kind)]
on_shutdown(c) == [c EXCEPT !.handler.shutdowns = @ + 1]
on_new_timeout(c, event) == [c EXCEPT !.handler.new_timeouts = @ \cup {event}]
on_timeout(c, event) == [c EXCEPT !.handler.timeouts = @ \cup {event}]

\* on_send_frame: <<>> for Ok(None), <<frame>> for Ok(Some(frame)).
on_send_frame(c, frame) ==
    CASE c.handler.send_hook = "rsv1" -> <<[frame EXCEPT !.rsv1 = TRUE]>>
      [] c.handler.send_hook = "none" -> <<>>
      [] OTHER -> <<frame>>

-----------------------------------------------------------------------------
(* connection.rs: State, Endpoint, Connection.                             *)

States == {"Connecting", "Open", "AwaitingClose", "RespondingClose", "FinishedClose"}

is_connecting(c) == c.state = "Connecting"
\* State::is_closing: AwaitingClose and FinishedClose, not RespondingClose.
is_closing(c) == c.state \in {"AwaitingClose", "FinishedClose"}
is_client(c) == c.endpoint = "Client"
is_server(c) == c.endpoint = "Server"

\* A Cursor<Vec<u8>>: the bytes, the cursor's position, the Vec's capacity.
NewCursor(cap) == [data |-> <<>>, pos |-> 0, cap |-> cap]
Unsent(buf) == Drop(buf.data, buf.pos)

\* Vec growth when len + additional exceeds the capacity (amortized doubling).
VecReserve(cap, len, additional) ==
    IF cap - len >= additional THEN cap ELSE Max(2 * cap, len + additional)

\* Connection::new: a server connection in Connecting, wanting only hup.
\* The two handshake buffers of Connecting(req, res) are kept by what they
\* parse to: "Empty", "Partial" (incomplete), "Bad" (a parse error), "Valid"
\* for a request and the status ("101", "403", "400", "500") for a response;
\* hs_pos is the cursor of the buffer being written out.
ConnectionNew(tok, handler, settings, connection_id) ==
    [token |-> tok, connection_id |-> connection_id,
     state |-> "Connecting", req |-> "Empty", res |-> "Empty", hs_pos |-> 0,
     res_body |-> <<>>,    \* what follows the head of the response in res
     endpoint |-> "Server", events |-> {"hup"},
     fragments |-> <<>>, in_buffer |-> <<>>,
     out_buffer |-> NewCursor(settings.out_buffer_capacity),
     handler |-> handler, addresses |-> 0, settings |-> settings,
     panicked |-> FALSE,   \* a panic! was raised inside one of its methods
     calls |-> 0,      \* calls of its methods from outside so far
     rx |-> 0,         \* frames received so far
     applied |-> <<>>, \* the commands handle_queue called its methods for
     wire |-> <<>>,    \* every frame handed to Frame::format, in order
     sent |-> <<>>]    \* every byte the stream accepted, in order

\* check_events asking for reads only.
check_events_readable(c) ==
    IF ~is_connecting(c)
    THEN [c EXCEPT !.events = @ \cup {"readable"}]
    ELSE c

\* Connection::check_events
check_events(c) ==
    IF ~is_connecting(c)
    THEN [c EXCEPT !.events =
            @ \cup {"readable"}
              \cup (IF c.out_buffer.pos < Len(c.out_buffer.data)
                    THEN {"writable"} ELSE {})]
    ELSE c

\* check_buffer_out copying the whole old buffer, sent bytes included.
check_buffer_out_whole(c, frame) ==
    IF c.out_buffer.cap <= Len(c.out_buffer.data) + frame_len(frame)
    THEN Res([c EXCEPT !.out_buffer.pos = 0], Ok)
    ELSE Res(c, Ok)

\* Connection::check_buffer_out: when the frame may not fit, move the unsent
\* bytes to the front of a new Vec of the old capacity; if that Vec is full,
\* grow it or fail.
check_buffer_out(c, frame) ==
    LET ob == c.out_buffer
        unsent == Unsent(ob)
    IN  IF ob.cap <= Len(ob.data) + frame_len(frame)
        THEN IF Len(unsent) = ob.cap
             THEN IF c.settings.out_buffer_grow
                  THEN Res([c EXCEPT !.out_buffer =
                              [data |-> unsent, pos |-> 0,
                               cap |-> VecReserve(ob.cap, Len(unsent),
                                                  c.settings.out_buffer_capacity)]],
                           Ok)
                  ELSE Res(c, Err("Capacity", Text(77)))
             ELSE Res([c EXCEPT !.out_buffer =
                         [data |-> unsent, pos |-> 0, cap |-> ob.cap]], Ok)
        ELSE Res(c, Ok)

\* generate_mask() is random: masks holds the values it returns, taken in turn.
NextMask(c, masks) == masks[(Len(c.wire) % Len(masks)) + 1]

\* Connection::buffer_frame: make room, mask on a client, append the
\* serialized frame at the end and put the cursor back.
buffer_frame(c, frame, masks) ==
    LET written(c1, f, bytes) ==
            Res([c1 EXCEPT
                   !.out_buffer = [data |-> @.data \o bytes, pos |-> @.pos,
                                   cap |-> VecReserve(@.cap, Len(@.data), Len(bytes))],
                   !.wire = Append(@, f)],
                Ok)
        formatted(c1, f) == written(c1, f, Format(f))
        checked(chk) ==
            IF ~chk.r.ok THEN chk
            ELSE formatted(chk.c, IF is_client(chk.c)
                                  THEN set_mask(frame, NextMask(chk.c, masks))
                                  ELSE frame)
    IN  checked(check_buffer_out(c, frame))

\* Several buffer_frame calls in a row under try!: stop at the first error.
RECURSIVE buffer_frames(_, _, _)
buffer_frames(c, frames, masks) ==
    IF frames = <<>> THEN Res(c, Ok)
    ELSE LET rest(one) == IF one.r.ok THEN buffer_frames(one.c, Tail(frames), masks)
                          ELSE one
         IN  rest(buffer_frame(c, Head(frames), masks))

\* slice::chunks(size)
RECURSIVE Chunks(_, _)
Chunks(data, size) ==
    IF Len(data) = 0 THEN <<>>
    ELSE IF Len(data) <= size THEN <<data>>
    ELSE <<Take(data, size)>> \o Chunks(Drop(data, size), size)

\* send_message leaving the reserved bits of the first chunk clear.
MessageFrames_norsv(frame, opcode, fragment_size) ==
    IF Len(frame.payload) > fragment_size
    THEN LET chunks == Chunks(frame.payload, fragment_size)
         IN  [i \in 1..Len(chunks) |->
                FrameMessage(chunks[i], IF i = 1 THEN opcode ELSE "Continue",
                             i = Len(chunks))]
    ELSE <<frame>>

\* send_message marking every chunk after the first as final.
MessageFrames_final(frame, opcode, fragment_size) ==
    IF Len(frame.payload) > fragment_size
    THEN LET chunks == Chunks(frame.payload, fragment_size)
         IN  <<FrameMessage(chunks[1], opcode, FALSE)>> \o
             [i \in 1..(Len(chunks) - 1) |->
                FrameMessage(chunks[i + 1], "Continue", TRUE)]
    ELSE <<frame>>

\* The frames send_message makes of the frame on_send_frame returned: the
\* frame itself when its payload fits fragment_size, else a first chunk with
\* the message's opcode and the frame's reserved bits, then Continue chunks,
\* the last of them final.
MessageFrames(frame, opcode, fragment_size) ==
    IF Len(frame.payload) > fragment_size
    THEN LET chunks == Chunks(frame.payload, fragment_size)
             first == [FrameMessage(chunks[1], opcode, FALSE) EXCEPT
                         !.rsv1 = frame.rsv1, !.rsv2 = frame.rsv2,
                         !.rsv3 = frame.rsv3]
         IN  <<first>> \o
             [i \in 1..(Len(chunks) - 1) |->
                FrameMessage(chunks[i + 1], "Continue", i + 1 = Len(chunks))]
    ELSE <<frame>>

\* Connection::send_message.  msg is [opcode, data].
send_message(c, msg, masks) ==
    IF is_closing(c) THEN Res(c, Ok)
    ELSE LET buffered(b) == IF b.r.ok THEN Res(check_events(b.c), Ok) ELSE b
             hooked(fs) ==
                 IF fs = <<>> THEN Res(check_events(c), Ok)
                 ELSE buffered(buffer_frames(
                                 c, MessageFrames(fs[1], msg.opcode,
                                                  c.settings.fragment_size), masks))
         IN  hooked(on_send_frame(c, FrameMessage(msg.data, msg.opcode, TRUE)))

\* Connection::send_ping
send_ping(c, data, masks) ==
    IF is_closing(c) THEN Res(c, Ok)
    ELSE LET buffered(b) == IF b.r.ok THEN Res(check_events(b.c), Ok) ELSE b
         IN  buffered(buffer_frames(c, on_send_frame(c, FramePing(data)), masks))

\* Connection::send_pong
send_pong(c, data, masks) ==
    IF is_closing(c) THEN Res(c, Ok)
    ELSE LET buffered(b) == IF b.r.ok THEN Res(check_events(b.c), Ok) ELSE b
         IN  buffered(buffer_frames(c, on_send_frame(c, FramePong(data)), masks))

\* Connection::send_close: RespondingClose -> FinishedClose, Open ->
\* AwaitingClose, nothing when already closing; then the Close frame.
send_close(c, code, reason, masks) ==
    IF c.state \in {"AwaitingClose", "FinishedClose"} THEN Res(check_events(c), Ok)
    ELSE LET buffered(b) == IF b.r.ok THEN Res(check_events(b.c), Ok) ELSE b
             moved(c1) ==
                 buffered(buffer_frames(
                            c1, on_send_frame(c1, FrameClose(code, reason)), masks))
         IN  moved([c EXCEPT !.state =
                      CASE @ = "RespondingClose" -> "FinishedClose"
                        [] @ = "Open" -> "AwaitingClose"
                        [] OTHER -> @])

\* Connection::disconnect
disconnect(c) ==
    LET c1 == IF c.state \in {"RespondingClose", "FinishedClose", "Connecting"}
              THEN c ELSE on_close(c, CC("Abnormal"), <<>>)
    IN  [c1 EXCEPT !.events = {}]

-----------------------------------------------------------------------------
(* connection.rs: the error path.                                          *)

\* The text an error is formatted to, "<kind>: <details>", cut short.
ErrorText(err) == err.details

\* The Connecting arm answering every error with the 500 response.
error_connecting_500(c, err) ==
    LET c1 == on_error(c, err)
    IN  IF err.kind = "Io" THEN [c1 EXCEPT !.events = {}]
        ELSE IF is_server(c1)
        THEN [c1 EXCEPT !.res = "500",
                        !.res_body = ErrorText(err),
                        !.events = (@ \ {"readable"}) \cup {"writable"}]
        ELSE [c1 EXCEPT !.events = {}]

\* The Connecting arm of Connection::error.
error_connecting(c, err) ==
    LET c1 == on_error(c, err)
    IN  IF err.kind = "Io" THEN [c1 EXCEPT !.events = {}]
        ELSE IF is_server(c1)
        THEN [c1 EXCEPT !.res = IF err.kind = "Protocol" THEN "400" ELSE "500",
                        !.res_body = ErrorText(err),
                        !.events = (@ \ {"readable"}) \cup {"writable"}]
        ELSE [c1 EXCEPT !.events = {}]

\* on_error, then a Close frame with the given code; when that fails,
\* on_error again and disconnect.
error_close(c, err, code, masks) ==
    LET closed(sc) == IF sc.r.ok THEN sc.c ELSE disconnect(on_error(sc.c, sc.r))
    IN  closed(send_close(on_error(c, err), code, ErrorText(err), masks))

\* Connection::error treating every error past the handshake as an I/O error.
error_disconnects(c, err, masks) ==
    IF is_connecting(c) THEN error_connecting(c, err)
    ELSE disconnect(on_error(c, err))

\* Connection::error
error(c, err, masks) ==
    IF is_connecting(c) THEN error_connecting(c, err)
    ELSE IF err.kind = "Internal" /\ c.settings.panic_on_internal
    THEN [c EXCEPT !.panicked = TRUE]
    ELSE IF err.kind \in {"Internal", "Capacity", "Protocol", "Encoding"}
    THEN error_close(c, err,
                     CASE err.kind = "Internal" -> CC("Error")
                       [] err.kind = "Capacity" -> CC("Size")
                       [] err.kind = "Protocol" -> CC("Protocol")
                       [] OTHER -> CC("Invalid"),
                     masks)
    ELSE IF err.kind \in {"Custom", "Timer", "Queue"} THEN on_error(c, err)
    ELSE disconnect(on_error(c, err))     \* Http, Io, Ssl

\* Connection::shutdown
shutdown(c, masks) ==
    LET closed(sc) == IF sc.r.ok THEN sc.c ELSE disconnect(on_error(sc.c, sc.r))
    IN  closed(send_close(on_shutdown(c), CC("Away"), Text(83), masks))

-----------------------------------------------------------------------------
(* connection.rs: the input path.  in_buffer holds the frames Frame::parse *)
(* will return, in order; a frame's payload is the payload after           *)
(* remove_mask.                                                            *)

\* String::from_utf8 on the payloads of the model: ASCII bytes are text, a lone
\* byte of 128 or more is not.
IsUtf8(bytes) == \A i \in 1..Len(bytes) : bytes[i] < 128

\* The codes read_frames refuses before it calls on_close.
InvalidOther(code) ==
    \/ code < 1000
    \/ code >= 5000
    \/ code \in {1004, 1014, 1016, 1100, 2000, 2999}

\* read_frames, OpCode::Close.
read_close(c, frame, masks) ==
    LET data == frame.payload
        \* the Close frame sent in answer, unless we are closing already
        answered(c2, code) ==
            IF ~is_closing(c2) THEN send_close(c2, code, <<>>, masks)
            ELSE Res(c2, Ok)
        \* on_close, then the checks of the code made after it
        reported(c2, named, has_reason) ==
            IF named[1] \in {"Abnormal", "Status", "Restart", "Again", "Tls"}
            THEN Res(c2, Err("Protocol", Text(82)))
            ELSE answered(c2, IF has_reason THEN named ELSE CC("Invalid"))
        coded(c1, named, has_reason) ==
            IF named[1] = "Other" /\ InvalidOther(named[2])
            THEN Res(c1, Err("Protocol", Text(82)))
            ELSE reported(on_close(c1, named,
                                   IF has_reason THEN Drop(data, 2) ELSE <<>>),
                          named, has_reason)
        parsed(c1) ==
            IF Len(data) >= 2
            THEN coded(c1, CloseCodeFromU16(from_be(TransmuteBytes(Take(data, 2)))),
                       IsUtf8(Drop(data, 2)))
            ELSE answered(on_close(c1, CC("Status"), Text(85)), CC("Empty"))
    IN  parsed(IF is_closing(c)
               THEN IF is_server(c) THEN [c EXCEPT !.events = {}] ELSE c
               ELSE [c EXCEPT !.state = "RespondingClose"])

\* read_frames, a final Text or Binary frame.
read_data(c, frame) ==
    IF c.fragments # <<>> THEN Res(c, Err("Protocol", Text(82)))
    ELSE IF frame.opcode = "Text" /\ ~IsUtf8(frame.payload)
    THEN Res(c, Err("Encoding", Text(105)))
    ELSE Res(on_message(c), Ok)

\* read_frames, a final Continue frame: the fragments are popped and joined.
read_final_continue(c, frame) ==
    IF c.fragments = <<>> THEN Res(c, Err("Protocol", Text(85)))
    ELSE LET first == Head(c.fragments)
             data == Concat([i \in 1..Len(c.fragments) |-> c.fragments[i].payload])
                     \o frame.payload
         IN  CASE first.opcode = "Text" ->
                    IF IsUtf8(data)
                    THEN Res(on_message([c EXCEPT !.fragments = <<>>]), Ok)
                    ELSE Res([c EXCEPT !.fragments = <<>>], Err("Encoding", Text(105)))
               [] first.opcode = "Binary" ->
                    Res(on_message([c EXCEPT !.fragments = <<>>]), Ok)
               [] OTHER ->
                    Res([c EXCEPT !.fragments = Tail(@)], Err("Protocol", Text(69)))

\* read_frames, one frame that passed the state and masking checks.
read_frame(c, frame, masks) ==
    IF frame.finished
    THEN CASE frame.opcode \in {"Text", "Binary"} -> read_data(c, frame)
           [] frame.opcode = "Close" -> read_close(c, frame, masks)
           [] frame.opcode = "Ping" -> send_pong(c, frame.payload, masks)
           [] frame.opcode = "Pong" -> Res(c, Ok)
           [] OTHER -> read_final_continue(c, frame)
    ELSE IF is_control(frame) THEN Res(c, Err("Protocol", Text(69)))
    ELSE IF ~c.settings.fragments_grow
            /\ c.settings.fragments_capacity = Len(c.fragments)
    THEN Res(c, Err("Capacity", Text(69)))
    ELSE Res([c EXCEPT !.fragments = Append(@, frame)], Ok)

\* read_frames handling frames in every state.
RECURSIVE read_frames_noskip(_, _)
read_frames_noskip(c, masks) ==
    IF c.in_buffer = <<>> THEN Res(c, Ok)
    ELSE LET rest(one) == IF one.r.ok THEN read_frames_noskip(one.c, masks) ELSE one
         IN  rest(read_frame([c EXCEPT !.in_buffer = Tail(@)],
                             Head(c.in_buffer), masks))

\* Connection::read_frames: take the frames of in_buffer one by one; frames
\* met in RespondingClose or FinishedClose are dropped; stop at the first error,
\* leaving the rest of the buffer in place.
RECURSIVE read_frames(_, _)
read_frames(c, masks) ==
    IF c.in_buffer = <<>> THEN Res(c, Ok)
    ELSE LET rest(one) == IF one.r.ok THEN read_frames(one.c, masks) ELSE one
             parsed(c1, frame) ==
                 IF c1.state \in {"RespondingClose", "FinishedClose"}
                 THEN read_frames(c1, masks)
                 ELSE IF c1.settings.masking_strict /\ is_masked(frame) /\ is_client(c1)
                 THEN Res(c1, Err("Protocol", Text(82)))
                 ELSE IF c1.settings.masking_strict /\ ~is_masked(frame) /\ is_server(c1)
                 THEN Res(c1, Err("Protocol", Text(82)))
                 ELSE rest(read_frame(c1, frame, masks))
         IN  parsed([c EXCEPT !.in_buffer = Tail(@)], Head(c.in_buffer))

-----------------------------------------------------------------------------
(* What the stream answers to one read or one write.                       *)

WouldBlock == [kind |-> "WouldBlock", n |-> 0, hs |-> "Empty", frames |-> <<>>]
Eof == [kind |-> "Eof", n |-> 0, hs |-> "Empty", frames |-> <<>>]
IoErr == [kind |-> "Err", n |-> 0, hs |-> "Empty", frames |-> <<>>]
Wrote(n) == [kind |-> "Wrote", n |-> n, hs |-> "Empty", frames |-> <<>>]
Data(frames) == [kind |-> "Data", n |-> 0, hs |-> "Empty", frames |-> frames]
HsData(hs, frames) == [kind |-> "Data", n |-> 0, hs |-> hs, frames |-> frames]

\* Length of a handshake request or response, in units a write can split.
HandshakeLen == 2
HsLen(buf) == IF buf = "Empty" THEN 0 ELSE HandshakeLen

\* Connection::as_server
as_server(c) == [c EXCEPT !.events = @ \cup {"readable"}]

\* Connection::as_client: the request is built into req.
as_client(c) ==
    [c EXCEPT !.events = @ \cup {"writable"}, !.endpoint = "Client",
              !.req = "Valid"]

\* The tail of write_handshake, once the server's response is written out.
finish_write_handshake(c) ==
    LET c1 == [c EXCEPT !.state = "Open"]
    IN  IF c1.req # "Valid"
        THEN Res([c1 EXCEPT !.state = "FinishedClose", !.events = {}], Ok)
        ELSE IF c1.res \in {"Empty", "Partial"}
        THEN Res(c1, Err("Internal", Text(70)))
        ELSE IF c1.res = "Bad" THEN Res(c1, Err("Http", Text(72)))
        ELSE IF c1.res # "101" THEN Res([c1 EXCEPT !.events = {}], Ok)
        ELSE Res(check_events([on_open(c1) EXCEPT !.events = @ \cup {"readable"}]),
                 Ok)

\* Connection::write_handshake
write_handshake(c, wr) ==
    IF wr.kind = "Err" THEN Res(c, Err("Io", Text(73)))
    ELSE IF is_server(c)
    THEN IF wr.kind = "Wrote" /\ c.hs_pos + wr.n = HsLen(c.res)
         THEN finish_write_handshake([c EXCEPT !.hs_pos = @ + wr.n])
         ELSE Res([c EXCEPT !.hs_pos = @ + wr.n], Ok)
    ELSE IF wr.kind = "Wrote" /\ c.hs_pos + wr.n = HsLen(c.req)
         THEN Res([c EXCEPT !.hs_pos = @ + wr.n,
                            !.events = (@ \cup {"readable"}) \ {"writable"}], Ok)
         ELSE Res([c EXCEPT !.hs_pos = @ + wr.n], Ok)

\* What a handshake buffer parses to after more bytes were read into it.
HsAppend(buf, rd) ==
    IF rd.kind = "Data" /\ buf \in {"Empty", "Partial"} THEN rd.hs ELSE buf

\* finish_read_handshake calling on_open before it looks at the status.
finish_read_handshake_early(c, masks) ==
    LET c1 == [c EXCEPT !.state = "Open"]
    IN  IF c1.req # "Valid" \/ c1.res \in {"Empty", "Partial"}
        THEN Res(c1, Err("Internal", Text(70)))
        ELSE IF c1.res = "Bad" THEN Res(c1, Err("Http", Text(72)))
        ELSE Res(check_events(on_open(c1)), Ok)

\* The tail of read_handshake on a client, once the response is complete (or
\* the read would block): the state is Open from here on.
finish_read_handshake(c, masks) ==
    LET c1 == [c EXCEPT !.state = "Open"]
    IN  IF c1.req # "Valid" THEN Res(c1, Err("Internal", Text(70)))
        ELSE IF c1.res \in {"Empty", "Partial"}
        THEN Res(c1, Err("Internal", Text(70)))
        ELSE IF c1.res = "Bad" THEN Res(c1, Err("Http", Text(72)))
        ELSE IF c1.res \in {"301", "302"} THEN Res(c1, Ok)
        ELSE IF c1.res # "101" THEN Res(c1, Err("Protocol", Text(72)))
        ELSE LET done(rf) == IF rf.r.ok THEN Res(check_events(rf.c), Ok) ELSE rf
                 opened(c2) == done(IF c2.in_buffer # <<>> THEN read_frames(c2, masks)
                                    ELSE Res(c2, Ok))
             IN  opened(on_open(c1))

\* Connection::read_handshake
read_handshake(c, rd, masks) ==
    IF rd.kind = "Err" THEN Res(c, Err("Io", Text(73)))
    ELSE IF is_server(c)
    THEN IF rd.kind = "WouldBlock" THEN Res(c, Ok)
         ELSE LET c1 == [c EXCEPT !.req = HsAppend(@, rd)]
              IN  CASE c1.req = "Bad" -> Res(c1, Err("Http", Text(72)))
                    [] c1.req = "Valid" ->
                         Res([c1 EXCEPT !.res = "101",
                                        !.events = (@ \ {"readable"}) \cup {"writable"}],
                             Ok)
                    [] OTHER -> Res(c1, Ok)
    ELSE LET c1 == [c EXCEPT !.res = HsAppend(@, rd)]
         IN  IF rd.kind # "WouldBlock" /\ c1.res \in {"Empty", "Partial"}
             THEN Res(c1, Ok)
             ELSE finish_read_handshake(
                      IF rd.kind = "WouldBlock" THEN c
                      ELSE [c1 EXCEPT !.in_buffer = @ \o rd.frames], masks)

\* Connection::read
read(c, rd, masks) ==
    IF is_connecting(c) THEN read_handshake(c, rd, masks)
    ELSE IF rd.kind = "Err" THEN Res(c, Err("Io", Text(73)))
    ELSE IF rd.kind # "Data" THEN Res(c, Ok)
    ELSE LET done(rf) == IF rf.r.ok THEN Res(rf.c, Ok)
                         ELSE IF rf.r.kind = "Io" THEN rf
                         ELSE Res(error(rf.c, rf.r, masks), Ok)
         IN  done(read_frames([c EXCEPT !.in_buffer = @ \o rd.frames], masks))

\* Connection::write dropping a server in FinishedClose after any write.
write_eager(c, wr) ==
    IF is_connecting(c) THEN write_handshake(c, wr)
    ELSE LET wrote(c2) ==
                 IF c2.state = "FinishedClose" /\ is_server(c2)
                 THEN Res([c2 EXCEPT !.events = {}], Ok)
                 ELSE Res(check_events(c2), Ok)
             begun(c1) ==
                 IF wr.kind = "Err" THEN Res(c1, Err("Io", Text(73)))
                 ELSE IF wr.kind = "Wrote"
                 THEN wrote([c1 EXCEPT
                               !.out_buffer.pos = @ + wr.n,
                               !.sent = @ \o SubSeq(c1.out_buffer.data,
                                                    c1.out_buffer.pos + 1,
                                                    c1.out_buffer.pos + wr.n)])
                 ELSE Res(check_events(c1), Ok)
         IN  begun([c EXCEPT !.events = @ \ {"writable"}])

\* Connection::write
write(c, wr) ==
    IF is_connecting(c) THEN write_handshake(c, wr)
    ELSE LET wrote(c2) ==
                 IF (wr.n = 0 \/ c2.out_buffer.pos = Len(c2.out_buffer.data))
                    /\ c2.state = "FinishedClose" /\ is_server(c2)
                 THEN Res([c2 EXCEPT !.events = {}], Ok)
                 ELSE Res(check_events(c2), Ok)
             begun(c1) ==
                 IF wr.kind = "Err" THEN Res(c1, Err("Io", Text(73)))
                 ELSE IF wr.kind = "Wrote"
                 THEN wrote([c1 EXCEPT
                               !.out_buffer.pos = @ + wr.n,
                               !.sent = @ \o SubSeq(c1.out_buffer.data,
                                                    c1.out_buffer.pos + 1,
                                                    c1.out_buffer.pos + wr.n)])
                 ELSE Res(check_events(c1), Ok)
         IN  begun([c EXCEPT !.events = @ \ {"writable"}])

\* The results a write of the bytes left in a buffer can have: it would
\* block, it fails, or it takes all or half of them.
WriteOutcomes(remaining) ==
    {WouldBlock, IoErr, Wrote(remaining)}
    \cup (IF remaining > 1 THEN {Wrote(remaining \div 2)} ELSE {})

-----------------------------------------------------------------------------
(* The reactor's state after Handler::new, shared by the specifications.   *)

Vacant == [vacant |-> TRUE]
Tokens == 0..(MaxConnections - 1)
Occupied(t) == connections[t] # Vacant
\* Slab::vacant_entry on an empty slab.
FirstToken == CHOOSE t \in Tokens : \A u \in Tokens : t <= u

NoStep == [op |-> "none"]

\* The masks generate_mask returns during one call.
MaskSet == {<<0, 0, 0, 0>>, <<255, 1, 2, 3>>}
MaskSeqs == {m \in MaskSet \X MaskSet : m[1] # m[2]}

\* A server connection taken through its handshake by the methods above.
ServerOpen(tok, handler, settings, id) ==
    write(read(as_server(ConnectionNew(tok, handler, settings, id)),
               HsData("Valid", <<>>), <<NoMask>>).c,
          Wrote(HandshakeLen)).c

\* A client connection taken through its handshake by the methods above.
ClientOpen(tok, handler, settings, id) ==
    read(write(as_client(ConnectionNew(tok, handler, settings, id)),
               Wrote(HandshakeLen)).c,
         HsData("101", <<>>), <<NoMask>>).c

-----------------------------------------------------------------------------
(* io.rs: the reactor.  Tokens of the event sources, read as signed.       *)

QUEUE == -4
TIMER == -5
ALL == -6

\* MESSAGES_PER_TICK, scaled down so that a full queue outlasts one tick.
MessagesPerTick == 2
\* Connections created over the reactor's life (next_connection_id stops here).
MaxIds == 2
\* Commands the producers send over the reactor's life.
MaxSends == 3
\* Threads holding a Sender.
MaxProducers == 2
\* Frames one connection receives over its life.
MaxRx == 2

Producers == 1..MaxProducers

\* What connection_lost is handed, and which connection it was.
Lost(c) ==
    [token |-> c.token, connection_id |-> c.connection_id, state |-> c.state,
     endpoint |-> c.endpoint, handler |-> c.handler, applied |-> c.applied]

\* A Command: the Sender's token and connection_id stamp, the Signal, and the
\* producer and its running number of the command.
Command(tok, id, sig, p, n) ==
    [token |-> tok, connection_id |-> id, signal |-> sig, p |-> p, n |-> n]

Signal(kind) ==
    [kind |-> kind, msg |-> [opcode |-> "Text", data |-> <<1>>],
     code |-> CC("Normal"), reason |-> <<>>, data |-> <<>>, event |-> 7]

\* try_recv taking the newest command of the channel.
try_recv_newest(q) == [cmd |-> q[Len(q)], rest |-> SubSeq(q, 1, Len(q) - 1)]

\* Receiver::try_recv on a non-empty channel.
try_recv(q) == [cmd |-> Head(q), rest |-> Tail(q)]

\* Handler::schedule can fail with an I/O error of reregister.
ScheduleErr == Err("Io", Text(73))

\* The masks generate_mask returns while the reactor runs a handler.
ReactorMasks == {<<<<255, 1, 2, 3>>, <<0, 0, 0, 0>>>>}

\* The method a Message, Close, Ping or Pong signal calls on a connection,
\* with conn.error(err) on failure where the caller does that at once.
signal_call(c, sig, masks) ==
    CASE sig.kind = "Message" -> send_message(c, sig.msg, masks)
      [] sig.kind = "Close" -> send_close(c, sig.code, sig.reason, masks)
      [] sig.kind = "Ping" -> send_ping(c, sig.data, masks)
      [] OTHER -> send_pong(c, sig.data, masks)

applied(c, cmd) ==
    [c EXCEPT !.applied = Append(@, [p |-> cmd.p, n |-> cmd.n, token |-> cmd.token])]

\* Handler::shutdown: every connection's shutdown, then Inactive.
shutdown_all(conns, masks) ==
    [t \in Tokens |-> IF conns[t] = Vacant THEN Vacant ELSE shutdown(conns[t], masks)]

\* Handler::handle_queue, the ALL arm.  fail is the set of tokens whose
\* reregistration fails.
handle_queue_all(conns, tm, st, cmd, masks, fail) ==
    LET sig == cmd.signal
    IN  IF sig.kind = "Timeout"
        THEN [connections |->
                [t \in Tokens |-> IF conns[t] = Vacant THEN Vacant
                                  ELSE on_new_timeout(conns[t], sig.event)],
              timer |-> tm \cup {[connection |-> ALL, event |-> sig.event]},
              state |-> st]
        ELSE LET scheduled(t, c1) ==
                     IF c1 # Vacant /\ t \in fail
                     THEN error(c1, ScheduleErr, masks) ELSE c1
                 called(t, r) ==
                     scheduled(t, IF r.r.ok THEN r.c ELSE error(r.c, r.r, masks))
                 each(t, c) ==
                     called(t, IF c = Vacant THEN Res(Vacant, Ok)
                               ELSE IF sig.kind = "Shutdown"
                               THEN Res(shutdown(c, masks), Ok)
                               ELSE signal_call(applied(c, cmd), sig, masks))
             IN  [connections |-> [t \in Tokens |-> each(t, conns[t])],
                  timer |-> tm,
                  state |-> IF sig.kind = "Shutdown" THEN "Inactive" ELSE st]

\* Handler::handle_queue, the arm of a command addressed to one token.
handle_queue_one(conns, tm, st, cmd, masks, fail) ==
    LET sig == cmd.signal
        tok == cmd.token
        c == conns[tok]
    IN  IF sig.kind = "Timeout"
        THEN [connections |->
                IF c = Vacant THEN conns
                ELSE [conns EXCEPT ![tok] = on_new_timeout(c, sig.event)],
              timer |-> tm \cup {[connection |-> tok, event |-> sig.event]},
              state |-> st]
        ELSE LET scheduled(conns1) ==
                     IF conns1[tok] # Vacant /\ tok \in fail
                     THEN [conns1 EXCEPT ![tok] = error(@, ScheduleErr, masks)]
                     ELSE conns1
                 called(r) ==
                     [conns EXCEPT ![tok] =
                        IF r.r.ok THEN r.c ELSE error(r.c, r.r, masks)]
             IN  [connections |->
                    scheduled(
                      IF sig.kind = "Shutdown" THEN shutdown_all(conns, masks)
                      ELSE IF c # Vacant /\ c.connection_id = cmd.connection_id
                      THEN called(signal_call(applied(c, cmd), sig, masks))
                      ELSE conns),
                  timer |-> tm,
                  state |-> IF sig.kind = "Shutdown" THEN "Inactive" ELSE st]

\* Handler::handle_queue
handle_queue(conns, tm, st, cmd, masks, fail) ==
    IF cmd.token = ALL THEN handle_queue_all(conns, tm, st, cmd, masks, fail)
    ELSE handle_queue_one(conns, tm, st, cmd, masks, fail)

\* Handler::check_active: a connection wanting neither reads nor writes is
\* removed and its handler goes to connection_lost; else it is rescheduled,
\* and removed after conn.error when that fails.
check_active(conns, gone, tok, masks, fail) ==
    LET c == conns[tok]
        active == c.events \cap {"readable", "writable"} # {}
    IN  IF ~active
        THEN [connections |-> [conns EXCEPT ![tok] = Vacant],
              lost |-> Append(gone, Lost(c))]
        ELSE IF tok \in fail
        THEN [connections |-> [conns EXCEPT ![tok] = Vacant],
              lost |-> Append(gone, Lost(error(c, ScheduleErr, masks)))]
        ELSE [connections |-> conns, lost |-> gone]

\* Handler::handle_event for a connection's token: read when the event and
\* the connection's interest are both readable, then write likewise, each
\* error going to conn.error.
after_read(c, kind, rd, masks) ==
    IF "readable" \in (kind \cap c.events)
    THEN LET done(r) == IF r.r.ok THEN r.c ELSE error(r.c, r.r, masks)
         IN  done(read([c EXCEPT !.rx = @ + Len(rd.frames)], rd, masks))
    ELSE c

after_write(c, kind, wr, masks) ==
    IF "writable" \in (kind \cap c.events)
    THEN LET done(w) == IF w.r.ok THEN w.c ELSE error(w.c, w.r, masks)
         IN  done(write(c, wr))
    ELSE c

\* The bytes a write of this connection has left to take.
Remaining(c) ==
    IF is_connecting(c)
    THEN HsLen(IF is_server(c) THEN c.res ELSE c.req) - c.hs_pos
    ELSE Len(Unsent(c.out_buffer))

-----------------------------------------------------------------------------
(* io.rs: the event loop, one action per step of Handler::run.             *)

\* Events one poll returns at most.
MaxBatch == 2
\* Commands sent while connections do I/O (Spec).
MaxCommands == 1
\* Connections created while connections do I/O (Spec).
MaxLives == 1

\* Frames as an endpoint built from this source sends them.
RxText == FrameMessage(<<1>>, "Text", TRUE)
RxFirst == FrameMessage(<<1>>, "Text", FALSE)
RxLast == FrameMessage(<<2>>, "Continue", TRUE)
RxClose == FrameClose(CC("Normal"), <<>>)
RxCloseOther == FrameClose(Other(999), <<>>)
RxFrames == {RxText, RxFirst, RxLast, RxClose, RxCloseOther}
\* What one read brings: a frame, or a Close frame with a frame behind it.
RxBatches ==
    {<<f>> : f \in RxFrames}
    \cup {<<RxClose, f>> : f \in {RxText, RxClose}}

\* The readiness an event for a connection reports.
EventKinds ==
    {{"readable"}, {"writable"}, {"readable", "writable"}, {"readable", "hup"}}

Reads(c, kind) == "readable" \in (kind \cap c.events)
Writes(c, kind) == "writable" \in (kind \cap c.events)

\* What the stream can answer to the read of an event: after a hangup the end
\* of the stream or an error, else bytes (handshake bytes while connecting), a
\* would-block or an error.
ReadOutcomes(c, kind) ==
    IF ~Reads(c, kind) THEN {WouldBlock}
    ELSE IF "hup" \in kind THEN {Eof, IoErr}
    ELSE IF is_connecting(c)
    THEN IF is_server(c)
         THEN {WouldBlock, IoErr, HsData("Valid", <<>>), HsData("Bad", <<>>)}
         ELSE {WouldBlock, IoErr, HsData("101", <<>>), HsData("403", <<>>)}
              \cup (IF c.rx < MaxRx THEN {HsData("101", <<RxText>>)} ELSE {})
    ELSE {WouldBlock, IoErr}
         \cup {Data(b) : b \in {x \in RxBatches : c.rx + Len(x) <= MaxRx}}

\* The same for the write of the event.
EventWrites(c, kind) ==
    IF ~Writes(c, kind) THEN {WouldBlock} ELSE WriteOutcomes(Remaining(c))

\* The stream as the queue's specification has it: handshakes complete in
\* one read and one write, and afterwards reads fail.
ReadOutcomesQ(c, kind) ==
    IF ~Reads(c, kind) THEN {WouldBlock}
    ELSE IF is_connecting(c) THEN {HsData("Valid", <<>>)}
    ELSE {IoErr}

EventWritesQ(c, kind) ==
    IF ~Writes(c, kind) THEN {WouldBlock} ELSE {Wrote(Remaining(c))}

\* Slab::len and Slab::vacant_entry
SlabLen(conns) == Cardinality({t \in Tokens : conns[t] # Vacant})
vacant_entry(conns) ==
    CHOOSE t \in Tokens : conns[t] = Vacant /\ \A u \in Tokens : conns[u] = Vacant => t <= u

\* The sources an event can come from now.
Sources(ids) ==
    (IF queue # <<>> THEN {QUEUE} ELSE {})
    \cup (IF timer # {} THEN {TIMER} ELSE {})
    \cup (IF listener /\ next_connection_id < ids THEN {ALL} ELSE {})
    \cup {t \in Tokens : Occupied(t)}

\* The events of one poll: distinct sources in the order they are handled.
Batches(S) ==
    {<<a>> : a \in S}
    \cup (IF MaxBatch >= 2 THEN {p \in S \X S : p[1] # p[2]} ELSE {})

Step(op, tok) ==
    [op |-> op, token |-> tok, kind |-> {}, rd |-> "none", frames |-> <<>>,
     before |-> [state |-> "none", events |-> {}, opened |-> 0, closes |-> <<>>],
     after |-> [state |-> "none", events |-> {}, opened |-> 0, closes |-> <<>>]]

View(c) ==
    [state |-> c.state, events |-> c.events, opened |-> c.handler.opened,
     closes |-> c.handler.closes]

Init ==
    /\ connections = [t \in Tokens |-> Vacant]
    /\ next_connection_id = 0
    /\ listener = FALSE
    /\ queue = <<>>
    /\ rstate = "Inactive"
    /\ loop = [pc |-> "init", pending |-> <<>>, k |-> 0, shutdowns |-> 0]
    /\ lost = <<>>
    /\ timer = {}
    /\ last = NoStep
    /\ produced = [p \in Producers |-> 0]
    /\ taken = <<>>

\* Handler::listen
Listen ==
    /\ loop.pc = "init"
    /\ ~listener
    /\ next_connection_id = 0
    /\ listener' = TRUE
    /\ last' = NoStep
    /\ UNCHANGED <<connections, next_connection_id, queue, rstate, loop, lost,
                   timer, produced, taken>>

\* What accept and connect leave behind: the result, and the table and the
\* next connection id they found.
Added(op, result) ==
    [op |-> op, result |-> result, conns |-> connections,
     id |-> next_connection_id]

\* Handler::connect taking a connection id before it looks at the table.
Connect_counts ==
    /\ loop.pc = "init"
    /\ ~listener
    /\ next_connection_id < MaxIds
    /\ IF SlabLen(connections) < DefaultSettings.max_connections
       THEN LET tok == vacant_entry(connections)
            IN  connections' =
                  [connections EXCEPT ![tok] =
                     as_client(ConnectionNew(tok, NewHandler("default"),
                                             DefaultSettings,
                                             next_connection_id))]
       ELSE UNCHANGED connections
    /\ next_connection_id' = next_connection_id + 1
    /\ last' = Added("connect", IF SlabLen(connections)
                                     < DefaultSettings.max_connections
                                  THEN "Ok" ELSE "Capacity")
    /\ UNCHANGED <<listener, queue, rstate, loop, lost, timer, produced, taken>>

\* Handler::connect.  With the table full it returns a Capacity error.
Connect ==
    /\ loop.pc = "init"
    /\ ~listener
    /\ IF SlabLen(connections) < DefaultSettings.max_connections
       THEN /\ next_connection_id < MaxLives
            /\ LET tok == vacant_entry(connections)
               IN  connections' =
                     [connections EXCEPT ![tok] =
                        as_client(ConnectionNew(tok, NewHandler("default"),
                                                DefaultSettings,
                                                next_connection_id))]
            /\ next_connection_id' = next_connection_id + 1
            /\ last' = Added("connect", "Ok")
       ELSE /\ UNCHANGED <<connections, next_connection_id>>
            /\ last' = Added("connect", "Capacity")
    /\ UNCHANGED <<listener, queue, rstate, loop, lost, timer, produced, taken>>

\* Handler::run up to the first poll.
Run ==
    /\ loop.pc = "init"
    /\ rstate' = "Active"
    /\ loop' = [loop EXCEPT !.pc = "poll"]
    /\ last' = NoStep
    /\ UNCHANGED <<connections, next_connection_id, listener, queue, lost,
                   timer, produced, taken>>

\* event_loop: poll returns events.
PollWith(ids) ==
    /\ loop.pc = "poll"
    /\ rstate = "Active"
    /\ \E b \in Batches(Sources(ids)) :
          loop' = [loop EXCEPT !.pc = "batch", !.pending = b, !.k = 0]
    /\ last' = NoStep
    /\ UNCHANGED <<connections, next_connection_id, listener, queue, rstate,
                   lost, timer, produced, taken>>

\* check_count leaving the loop of a reactor with a listener as well.
check_count_any(conns, st) ==
    IF SlabLen(conns) = 0 /\ st = "Active" THEN "Inactive" ELSE st

\* Handler::check_count: the state it leaves, and the calls of the factory's
\* on_shutdown it makes.
check_count(conns, st) ==
    IF SlabLen(conns) = 0 /\ st = "Active" /\ ~listener THEN "Inactive" ELSE st
check_count_shutdowns(conns, st) ==
    IF SlabLen(conns) = 0 /\ st = "Active" /\ ~listener THEN 1 ELSE 0

\* event_loop: poll is interrupted; no events, then check_count.
Interrupt ==
    /\ loop.pc = "poll"
    /\ rstate = "Active"
    /\ LET st == IF DefaultSettings.shutdown_on_interrupt THEN "Inactive"
                 ELSE rstate
       IN  /\ rstate' = check_count(connections, st)
           /\ loop' = [loop EXCEPT
                         !.shutdowns = @ + check_count_shutdowns(connections, st)]
    /\ last' = [op |-> "check_count", interrupted |-> TRUE]
    /\ UNCHANGED <<connections, next_connection_id, listener, queue, lost, timer,
                   produced, taken>>

\* event_loop: the while condition fails; run returns.
Exit ==
    /\ loop.pc = "poll"
    /\ rstate = "Inactive"
    /\ loop' = [loop EXCEPT !.pc = "done"]
    /\ last' = NoStep
    /\ UNCHANGED <<connections, next_connection_id, listener, queue, rstate,
                   lost, timer, produced, taken>>

\* event_loop: the events of the poll are handled; check_count.
EndBatch ==
    /\ loop.pc = "batch"
    /\ loop.pending = <<>>
    /\ rstate' = check_count(connections, rstate)
    /\ loop' = [loop EXCEPT !.pc = "poll",
                            !.shutdowns = @ + check_count_shutdowns(connections,
                                                                    rstate)]
    /\ last' = [op |-> "check_count", interrupted |-> FALSE]
    /\ UNCHANGED <<connections, next_connection_id, listener, queue, lost,
                   timer, produced, taken>>

Handling(src) ==
    /\ loop.pc = "batch"
    /\ loop.pending # <<>>
    /\ Head(loop.pending) \in src

Handled == loop' = [loop EXCEPT !.pending = Tail(@)]

\* handle_event, ALL: Handler::accept.  Over the connection limit the
\* accepted socket is dropped with an error log.
AcceptEvent ==
    /\ Handling({ALL})
    /\ IF SlabLen(connections) < DefaultSettings.max_connections
       THEN LET tok == vacant_entry(connections)
            IN  /\ connections' =
                     [connections EXCEPT ![tok] =
                        as_server(ConnectionNew(tok, NewHandler("default"),
                                                DefaultSettings,
                                                next_connection_id))]
                /\ next_connection_id' = next_connection_id + 1
                /\ last' = Added("accept", "Ok")
       ELSE /\ UNCHANGED <<connections, next_connection_id>>
            /\ last' = Added("accept", "Capacity")
    /\ Handled
    /\ UNCHANGED <<listener, queue, rstate, lost, timer, produced, taken>>

\* Handler::handle_timeout
handle_timeout(conns, gone, t, masks, fail) ==
    IF t.connection \notin Tokens \/ conns[t.connection] = Vacant
    THEN [connections |-> conns, lost |-> gone]
    ELSE check_active([conns EXCEPT ![t.connection] = on_timeout(@, t.event)],
                      gone, t.connection, masks, fail)

\* handle_event, TIMER: handle_timeout for each timeout timer.poll returns.
RECURSIVE handle_timeouts(_, _, _, _, _)
handle_timeouts(conns, gone, ts, masks, fail) ==
    IF ts = <<>> THEN [connections |-> conns, lost |-> gone]
    ELSE LET rest(one) ==
                 handle_timeouts(one.connections, one.lost, Tail(ts), masks, fail)
         IN  rest(handle_timeout(conns, gone, Head(ts), masks, fail))

TimerEvent ==
    /\ Handling({TIMER})
    /\ \E ts \in Batches(timer), masks \in ReactorMasks :
         LET polled(ht) ==
                 /\ connections' = ht.connections
                 /\ lost' = ht.lost
                 /\ timer' = timer \ {ts[i] : i \in 1..Len(ts)}
                 /\ last' = [op |-> "timer", fired |-> ts]
         IN  polled(handle_timeouts(connections, lost, ts, masks, {}))
    /\ Handled
    /\ UNCHANGED <<next_connection_id, listener, queue, rstate, produced, taken>>

\* handle_event, QUEUE: the loop over try_recv begins.
QueueEvent ==
    /\ Handling({QUEUE})
    /\ loop' = [loop EXCEPT !.pc = "queue", !.k = 0]
    /\ last' = NoStep
    /\ UNCHANGED <<connections, next_connection_id, listener, queue, rstate,
                   lost, timer, produced, taken>>

\* One turn of the loop: try_recv returns a command, handle_queue runs it.
QueueRecv ==
    /\ loop.pc = "queue"
    /\ loop.k < MessagesPerTick
    /\ queue # <<>>
    /\ \E masks \in ReactorMasks, fail \in SUBSET Tokens :
          LET handled(hq, cmd) ==
                  /\ connections' = hq.connections
                  /\ timer' = hq.timer
                  /\ rstate' = hq.state
                  /\ loop' = [loop EXCEPT
                                !.k = @ + 1,
                                !.shutdowns =
                                    IF cmd.signal.kind = "Shutdown" THEN @ + 1
                                    ELSE @,
                                !.pc = IF \E t \in Tokens :
                                            hq.connections[t] # Vacant
                                            /\ hq.connections[t].panicked
                                       THEN "panicked" ELSE @]
              received(rcv) ==
                  /\ queue' = rcv.rest
                  /\ taken' = Append(taken, rcv.cmd)
                  /\ handled(handle_queue(connections, timer, rstate, rcv.cmd,
                                          masks, fail), rcv.cmd)
          IN  /\ received(try_recv(queue))
              /\ last' = NoStep
    /\ UNCHANGED <<next_connection_id, listener, lost, produced>>

\* The loop ends: MESSAGES_PER_TICK commands were run or try_recv found the
\* channel empty; the queue is reregistered.
QueueDone ==
    /\ loop.pc = "queue"
    /\ loop.k = MessagesPerTick \/ queue = <<>>
    /\ loop' = [loop EXCEPT !.pc = "batch", !.pending = Tail(@), !.k = 0]
    /\ last' = NoStep
    /\ UNCHANGED <<connections, next_connection_id, listener, queue, rstate,
                   lost, timer, produced, taken>>

\* handle_event for a connection's token.  Indexing a vacant slot panics.
\* brief chooses the stream of the queue's specifications.
ConnEventWith(brief, Fails) ==
    /\ Handling(Tokens)
    /\ LET tok == Head(loop.pending)
           c == connections[tok]
       IN  IF c = Vacant
           THEN /\ loop' = [loop EXCEPT !.pc = "panicked"]
                /\ last' = NoStep
                /\ UNCHANGED <<connections, lost>>
           ELSE \E kind \in EventKinds, masks \in ReactorMasks, fail \in Fails :
                \E rd \in IF brief THEN ReadOutcomesQ(c, kind)
                           ELSE ReadOutcomes(c, kind) :
                   LET checked(ca) ==
                           /\ connections' = ca.connections
                           /\ lost' = ca.lost
                           /\ Handled
                       written(c2) ==
                           /\ IF c2.panicked
                              THEN /\ connections' = [connections EXCEPT ![tok] = c2]
                                   /\ lost' = lost
                                   /\ loop' = [loop EXCEPT !.pc = "panicked"]
                              ELSE checked(check_active(
                                             [connections EXCEPT ![tok] = c2],
                                             lost, tok, masks, fail))
                           /\ last' = [Step("event", tok) EXCEPT
                                         !.kind = kind,
                                         !.rd = IF Reads(c, kind) THEN rd.kind
                                                ELSE "none",
                                         !.frames = rd.frames,
                                         !.before = View(c), !.after = View(c2)]
                       was_read(c1) ==
                           \E wr \in IF brief THEN EventWritesQ(c1, kind)
                                       ELSE EventWrites(c1, kind) :
                              written(after_write(c1, kind, wr, masks))
                   IN  /\ kind \cap (c.events \cup {"hup"}) # {}
                       /\ was_read(after_read(c, kind, rd, masks))
    /\ UNCHANGED <<next_connection_id, listener, queue, rstate, timer, produced,
                   taken>>

ConnEvent == ConnEventWith(FALSE, {{}, Tokens})

Poll == PollWith(MaxLives)

\* Sender::send, close, ping, pong, timeout and shutdown from another thread:
\* the command enters the channel when the channel has room.
SendCommand(p, toks, kinds, max) ==
    /\ loop.pc \notin {"done", "panicked"}
    /\ produced[p] < max
    /\ Len(queue) < DefaultSettings.max_connections * DefaultSettings.queue_size
    /\ \E s \in toks, k \in kinds :
         /\ queue' = Append(queue, Command(s.token, s.connection_id, Signal(k),
                                           p, produced[p] + 1))
    /\ produced' = [produced EXCEPT ![p] = @ + 1]
    /\ UNCHANGED <<connections, next_connection_id, listener, rstate, loop,
                   lost, timer, last, taken>>

\* The Senders handed out so far: Handler::sender's, and one per connection.
Broadcaster == [token |-> ALL, connection_id |-> 0]
Senders ==
    {[token |-> connections[t].token, connection_id |-> connections[t].connection_id] :
       t \in {u \in Tokens : Occupied(u)}}
    \cup {[token |-> lost[i].token, connection_id |-> lost[i].connection_id] :
            i \in 1..Len(lost)}

Send ==
    SendCommand(1, Senders \cup {Broadcaster}, {"Close", "Shutdown"}, MaxCommands)

Next ==
    \/ Listen
    \/ Connect
    \/ Run
    \/ Poll
    \/ Interrupt
    \/ Exit
    \/ EndBatch
    \/ AcceptEvent
    \/ QueueEvent
    \/ QueueRecv
    \/ QueueDone
    \/ ConnEvent
    \/ Send

Spec == Init /\ [][Next]_vars

-----------------------------------------------------------------------------
(* SpecQueue and SpecStale: the command queue.  Connections are accepted,   *)
(* finish their handshake in one read and one write, and end with a failed *)
(* read.                                                                   *)

ConnEventQ == ConnEventWith(TRUE, {{}})

\* The signals whose handling calls a method of one connection.
MethodKinds == {"Message", "Close", "Ping", "Pong"}

\* Producer 1 holds the Sender of a connection; each other producer sends
\* one command through any Sender.
SendAny ==
    \E p \in Producers :
       IF p = 1
       THEN SendCommand(p, Senders, {"Message", "Ping", "Close"}, MaxSends)
       ELSE SendCommand(p, Senders \cup {Broadcaster}, {"Message", "Shutdown"}, 1)

NextQueue ==
    \/ Listen
    \/ Run
    \/ Poll
    \/ Exit
    \/ EndBatch
    \/ AcceptEvent
    \/ QueueEvent
    \/ QueueRecv
    \/ QueueDone
    \/ ConnEventQ
    \/ SendAny

SpecQueue == Init /\ [][NextQueue]_vars

\* SpecStale: connections come and go in one slot while one producer sends
\* through the Sender of any of them, also of one already removed.
PollStale == PollWith(MaxIds)

SendStale ==
    SendCommand(1, Senders, MethodKinds \cup {"Timeout"}, MaxCommands)

\* Sender::timeout through the Sender of Handler::sender, which addresses ALL.
SendTimeoutAll ==
    SendCommand(1, {Broadcaster}, {"Timeout"}, MaxCommands)

NextStale ==
    \/ Listen
    \/ Connect
    \/ Run
    \/ PollStale
    \/ EndBatch
    \/ AcceptEvent
    \/ TimerEvent
    \/ QueueEvent
    \/ QueueRecv
    \/ QueueDone
    \/ ConnEventQ
    \/ SendStale
    \/ SendTimeoutAll

SpecStale == Init /\ [][NextStale]_vars

\* A command for one connection whose slot is vacant or holds a connection
\* with another connection_id.
Stale(cmd) ==
    /\ cmd.token \in Tokens
    /\ cmd.signal.kind \in MethodKinds \cup {"Timeout"}
    /\ \/ connections[cmd.token] = Vacant
       \/ connections[cmd.token].connection_id # cmd.connection_id

\* C6: handling a message, close, ping, pong or timeout command for one
\* connection whose slot is vacant or holds another connection_id changes
\* no connection: no state, no buffer, no call of a handler method.
C6_StaleCommandChangesNothing ==
    [][(/\ loop.pc = "queue"
        /\ queue # <<>>
        /\ taken' = Append(taken, Head(queue))
        /\ Stale(Head(queue)))
       => connections' = connections]_vars

\* The running numbers of producer p's commands in a sequence of commands.
Numbers(cmds, p) ==
    LET own == SelectSeq(cmds, LAMBDA cmd : cmd.p = p)
    IN  [i \in 1..Len(own) |-> own[i].n]

\* The commands taken so far that were sent through the Sender of a
\* connection and call one of its methods.
TakenFor(tok, id) ==
    LET own == SelectSeq(taken, LAMBDA cmd : /\ cmd.token = tok
                                             /\ cmd.connection_id = id
                                             /\ cmd.signal.kind \in MethodKinds)
    IN  [i \in 1..Len(own) |-> [p |-> own[i].p, n |-> own[i].n, token |-> tok]]

Direct(log) == SelectSeq(log, LAMBDA a : a.token # ALL)

IsPrefix(a, b) == Len(a) <= Len(b) /\ a = SubSeq(b, 1, Len(a))

\* C8: the commands the reactor has taken, followed by those still in the
\* channel, hold each producer's commands in the order they were sent and
\* none is missing; the methods of a connection in the table were called for
\* exactly the commands sent through its Sender and taken so far, in that
\* order (for a connection already removed, for the first of them).
C8_AppliedInSendOrder ==
    /\ \A p \in Producers :
          Numbers(taken \o queue, p) = [i \in 1..produced[p] |-> i]
    /\ \A t \in Tokens :
          Occupied(t) =>
             Direct(connections[t].applied) = TakenFor(t, connections[t].connection_id)
    /\ \A i \in 1..Len(lost) :
          IsPrefix(Direct(lost[i].applied),
                   TakenFor(lost[i].token, lost[i].connection_id))

\* C8 witness: one producer's three commands to a connection were applied in
\* order over more than one tick of the queue, with another producer's
\* command taken between them.
C8_Witness ==
    \E t \in Tokens :
       /\ Occupied(t)
       /\ Len(Direct(connections[t].applied)) > MessagesPerTick
       /\ \A i \in 1..Len(Direct(connections[t].applied)) :
             Direct(connections[t].applied)[i].p = 1
       /\ \E i \in 1..Len(taken) :
             /\ taken[i].p # 1
             /\ \E j \in 1..(i - 1) : taken[j].p = 1
             /\ \E j \in (i + 1)..Len(taken) : taken[j].p = 1

-----------------------------------------------------------------------------
(* Properties of a connection's life under the reactor (Spec).             *)

\* The handlers of the connections in the table and of those removed.
Handlers ==
    {connections[t].handler : t \in {u \in Tokens : Occupied(u)}}
    \cup {lost[i].handler : i \in 1..Len(lost)}

\* C1: every connection whose on_open was called has had on_close called by
\* the time the reactor removes it from the table, whatever ended it.
C1_CloseBeforeRemoval ==
    \A i \in 1..Len(lost) :
       lost[i].handler.opened >= 1 => Len(lost[i].handler.closes) >= 1

\* C2: on_close is called at most once in the life of a connection that
\* was opened.
C2_CloseAtMostOnce ==
    \A h \in Handlers : h.opened >= 1 => Len(h.closes) <= 1

\* C3 as stated: on_message is never called while the connection is in
\* AwaitingClose, RespondingClose or FinishedClose.
C3_NoMessageOnceClosing ==
    \A h \in Handlers :
       h.message_in \cap {"AwaitingClose", "RespondingClose", "FinishedClose"} = {}

\* C3 amended: on_message is never called while the connection is in
\* RespondingClose or FinishedClose, that is once the peer's Close was read
\* in Open; in AwaitingClose messages are still delivered.
C3_NoMessageAfterPeerClose ==
    \A h \in Handlers :
       h.message_in \cap {"RespondingClose", "FinishedClose"} = {}

\* C3 witness: one read of an open connection brought a Close frame and a
\* Text frame behind it; the Close was reported and the Text was dropped.
C3_Witness ==
    /\ last.op = "event"
    /\ last.before.state = "Open"
    /\ last.frames = <<RxClose, RxText>>
    /\ last.after.state = "FinishedClose"
    /\ Len(last.after.closes) = 1
    /\ \A h \in Handlers : h.messages = 0

\* C4: when the stream of an Open connection hangs up or fails with an I/O
\* error before any Close frame was sent or received, on_close is called
\* exactly once, with Abnormal and an empty reason, and the connection's
\* events become empty.
C4_HangupReportsAbnormal ==
    (/\ last.op = "event"
     /\ last.rd \in {"Eof", "Err"}
     /\ last.before.state = "Open"
     /\ last.before.opened >= 1
     /\ last.before.closes = <<>>)
    => (/\ last.after.closes = <<[code |-> CC("Abnormal"), reason |-> <<>>]>>
        /\ last.after.events = {})

\* C5: once a Shutdown command was processed, the event loop returns only
\* when the table of connections is empty.
C5_ExitOnlyWhenEmpty ==
    (/\ loop.pc = "done"
     /\ \E i \in 1..Len(taken) : taken[i].signal.kind = "Shutdown")
    => \A t \in Tokens : ~Occupied(t)

-----------------------------------------------------------------------------
(* SpecConn: the output path of one open connection.  The owner calls the  *)
(* send methods and write in any order, the stream accepting any part of   *)
(* what is left.                                                           *)

\* Payloads: prefixes of a pattern of distinct bytes, of the lengths around
\* fragment_size, and one byte with its high bit set.
Pattern == <<1, 2, 3, 4, 5, 6, 7, 8>>
PayloadLens == {0, 1, FragmentSize, FragmentSize + 1, MaxPayload}
ConnMessages ==
    {[opcode |-> "Text", data |-> Take(Pattern, n)] : n \in PayloadLens}
    \cup {[opcode |-> "Binary", data |-> <<200>>]}
ConnCloses == {CC("Normal")}

\* The endpoint, on_send_frame hook and out_buffer_grow of the connection.
ConnConfigs ==
    ({"Client", "Server"} \X {"default"} \X BOOLEAN)
    \cup ({"Server"} \X {"rsv1", "none"} \X {TRUE})

InitConn ==
    /\ \E cfg \in ConnConfigs :
         LET settings == [DefaultSettings EXCEPT !.out_buffer_grow = cfg[3]]
         IN  connections =
               [t \in Tokens |->
                  IF t # FirstToken THEN Vacant
                  ELSE IF cfg[1] = "Client"
                  THEN ClientOpen(t, NewHandler(cfg[2]), settings, 0)
                  ELSE ServerOpen(t, NewHandler(cfg[2]), settings, 0)]
    /\ next_connection_id = 1
    /\ listener = FALSE
    /\ queue = <<>>
    /\ rstate = "Active"
    /\ loop = [pc |-> "poll", pending |-> <<>>, k |-> 0, shutdowns |-> 0]
    /\ lost = <<>>
    /\ timer = {}
    /\ last = NoStep
    /\ produced = [p \in Producers |-> 0]
    /\ taken = <<>>

ConnUnchanged ==
    UNCHANGED <<next_connection_id, listener, queue, rstate, loop, lost, timer,
                produced, taken>>

\* One call of a send method: the connection after it, and a record of it.
ConnCall(t, op, arg, res) ==
    /\ connections[t].calls < MaxCalls
    /\ Len(res.c.wire) <= MaxFrames
    /\ connections' = [connections EXCEPT ![t] = [res.c EXCEPT !.calls = @ + 1]]
    /\ last' = [op |-> op, token |-> t, state |-> connections[t].state,
                before |-> Len(connections[t].wire), r |-> res.r, arg |-> arg]
    /\ ConnUnchanged

ConnSendMessage(t) ==
    \E msg \in ConnMessages, masks \in MaskSeqs :
       ConnCall(t, "send_message", msg, send_message(connections[t], msg, masks))

ConnSendPing(t) ==
    \E data \in {<<9>>}, masks \in MaskSeqs :
       ConnCall(t, "send_ping", [data |-> data],
                send_ping(connections[t], data, masks))

ConnSendPong(t) ==
    \E data \in {<<>>}, masks \in MaskSeqs :
       ConnCall(t, "send_pong", [data |-> data],
                send_pong(connections[t], data, masks))

ConnSendClose(t) ==
    \E code \in ConnCloses, masks \in MaskSeqs :
       ConnCall(t, "send_close", [code |-> code],
                send_close(connections[t], code, <<>>, masks))

\* Connection::write on a writable event; an error ends the connection's use.
ConnWrite(t) ==
    /\ "writable" \in connections[t].events
    /\ \E wr \in WriteOutcomes(Len(Unsent(connections[t].out_buffer))) :
         LET res == write(connections[t], wr)
         IN  /\ connections' = [connections EXCEPT ![t] =
                                  IF res.r.ok THEN res.c
                                  ELSE error(res.c, res.r, <<NoMask>>)]
             /\ last' = [op |-> "write", token |-> t,
                         state |-> connections[t].state,
                         before |-> Len(connections[t].wire), r |-> res.r,
                         arg |-> [kind |-> wr.kind]]
    /\ ConnUnchanged

NextConn ==
    \E t \in Tokens :
       /\ Occupied(t)
       /\ connections[t].events # {}
       /\ \/ ConnSendMessage(t)
          \/ ConnSendPing(t)
          \/ ConnSendPong(t)
          \/ ConnSendClose(t)
          \/ ConnWrite(t)

SpecConn == InitConn /\ [][NextConn]_vars

-----------------------------------------------------------------------------
(* SpecIo: one connection from Connection::new on, driven as the reactor   *)
(* drives it: reads and writes with every outcome of the stream, and calls *)
(* of Connection::error.                                                   *)

\* Calls of Connection::error from outside read and write, per connection.
MaxErrors == 1

\* A Close frame as RFC 6455 has it on the wire: the status code in network
\* byte order, then the reason.
PeerClose(code, reason) ==
    [FrameDefault EXCEPT !.length = 2 + Len(reason),
                         !.payload = BeBytes(code, 2) \o reason]

\* A Close frame whose payload is too short to hold a status code.
ShortClose(body) == [FrameDefault EXCEPT !.length = Len(body), !.payload = body]

\* The status codes the peer's Close frames carry: 1000, 1004, 1005 and 3000,
\* and the codes whose two bytes are those of 1000 and of 1005 swapped.
PeerCodes == {0, 1000, 1004, 1005, 3000, Swap16(1000), Swap16(1005)}

IoCloses ==
    {PeerClose(code, <<>>) : code \in PeerCodes}
    \cup {PeerClose(code, reason) :
            code \in {1000, Swap16(1000)}, reason \in {<<65>>, <<200>>}}
    \cup {ShortClose(<<>>), ShortClose(<<3>>)}

\* Data frames: a message, one with a byte that is not UTF-8, a ping.
IoData ==
    {FrameMessage(<<1>>, "Text", TRUE), FrameMessage(<<200>>, "Text", TRUE),
     FramePing(<<9>>)}

\* What one read of an open connection brings: one frame, or a Close frame
\* with a message behind it.
IoBatches ==
    {<<f>> : f \in IoCloses \cup IoData}
    \cup {<<PeerClose(code, <<>>), FrameMessage(<<1>>, "Text", TRUE)>> :
            code \in {1000, Swap16(1000)}}

\* An I/O error whose raw_os_error is CONNECTION_REFUSED.
Refused == [kind |-> "Refused", n |-> 0, hs |-> "Empty", frames |-> <<>>]

\* The answers of the stream to a read of this connection.
IoReads(c) ==
    IF is_connecting(c)
    THEN {WouldBlock, IoErr, Refused}
         \cup (IF is_server(c)
               THEN {HsData(h, <<>>) : h \in {"Valid", "Bad", "Partial"}}
               ELSE {HsData(h, <<>>) : h \in {"101", "301", "403", "Bad", "Partial"}}
                    \cup {HsData("101", <<FrameMessage(<<1>>, "Text", TRUE)>>)})
    ELSE {IoErr, Eof}
         \cup {Data(b) : b \in {x \in IoBatches : c.rx + Len(x) <= MaxRx}}

\* The answers of the stream to a write of this connection: a handshake is
\* taken in one piece or two, or refused; frames are taken whole.
IoWrites(c) ==
    IF is_connecting(c)
    THEN WriteOutcomes(Remaining(c)) \cup {Refused}
    ELSE {WouldBlock, IoErr, Wrote(Remaining(c))}

\* Connection::reset trying the same address again.
reset_same(c, sock) ==
    IF ~is_client(c) THEN Res(c, Err("Internal", Text(83)))
    ELSE IF ~is_connecting(c) THEN Res(c, Err("Internal", Text(85)))
    ELSE Res([c EXCEPT !.hs_pos = 0,
                       !.events = (@ \ {"readable"}) \cup {"writable"}],
             IF sock = "Ok" THEN Ok ELSE Err("Io", Text(73)))

\* Connection::reset: a client in Connecting rewinds its handshake buffers,
\* wants writable only and pops the next address, if there is one; sock is
\* what TcpStream::connect to that address returns.
reset(c, sock) ==
    IF ~is_client(c) THEN Res(c, Err("Internal", Text(83)))
    ELSE IF ~is_connecting(c) THEN Res(c, Err("Internal", Text(85)))
    ELSE IF c.addresses = 0
    THEN Res([c EXCEPT !.hs_pos = 0,
                       !.events = (@ \ {"readable"}) \cup {"writable"}],
             Err("Internal", Text(69)))
    ELSE Res([c EXCEPT !.hs_pos = 0,
                       !.events = (@ \ {"readable"}) \cup {"writable"},
                       !.addresses = @ - 1],
             IF sock = "Ok" THEN Ok ELSE Err("Io", Text(73)))

\* What TcpStream::connect returns in a reset after this answer of the stream.
Connects(io) == IF io = Refused THEN {"Ok", "Err"} ELSE {"Ok"}

\* handle_event after a read or write failed with CONNECTION_REFUSED: reset,
\* and conn.error with the I/O error when reset fails.
refused(c, sock, masks) ==
    LET tried(r) == IF r.r.ok THEN r.c ELSE error(r.c, Err("Io", Text(73)), masks)
    IN  tried(reset(c, sock))
\* The kinds of error Connection::error is called with.
ErrorKinds ==
    {"Internal", "Capacity", "Protocol", "Encoding", "Custom", "Queue", "Timer"}

\* The endpoint of the connection and its panic_on_internal setting.
IoConfigs == {"Client", "Server"} \X BOOLEAN

\* A client starts with one more candidate address to fall back to.
InitIo ==
    /\ \E cfg \in IoConfigs :
         LET fresh == ConnectionNew(
                        FirstToken, NewHandler("default"),
                        [DefaultSettings EXCEPT !.panic_on_internal = cfg[2]], 0)
         IN  connections =
               [t \in Tokens |->
                  IF t # FirstToken THEN Vacant
                  ELSE IF cfg[1] = "Client"
                  THEN [as_client(fresh) EXCEPT !.addresses = 1]
                  ELSE as_server(fresh)]
    /\ next_connection_id = 1
    /\ listener = FALSE
    /\ queue = <<>>
    /\ rstate = "Active"
    /\ loop = [pc |-> "poll", pending |-> <<>>, k |-> 0, shutdowns |-> 0]
    /\ lost = <<>>
    /\ timer = {}
    /\ last = NoStep
    /\ produced = [p \in Producers |-> 0]
    /\ taken = <<>>

\* One step on the connection: what was done, and the connection before and
\* after it.
IoStep(t, op, io, kind, sock, c2) ==
    /\ connections' = [connections EXCEPT ![t] = c2]
    /\ last' = [op |-> op, token |-> t, rd |-> io.kind, hs |-> io.hs,
                frames |-> io.frames, kind |-> kind, sock |-> sock,
                before |-> connections[t], after |-> c2]
    /\ ConnUnchanged

\* handle_event, readable: conn.read(), then reset or conn.error on failure.
IoRead(t) ==
    /\ "readable" \in connections[t].events
    /\ \E rd \in IoReads(connections[t]), masks \in ReactorMasks :
       \E sock \in Connects(rd) :
          IoStep(t, "read", rd, "None", sock,
                 IF rd = Refused THEN refused(connections[t], sock, masks)
                 ELSE after_read(connections[t], {"readable"}, rd, masks))

\* handle_event, writable: conn.write(), then reset or conn.error on failure.
IoWrite(t) ==
    /\ "writable" \in connections[t].events
    /\ \E wr \in IoWrites(connections[t]), masks \in ReactorMasks :
       \E sock \in Connects(wr) :
          IoStep(t, "write", wr, "None", sock,
                 IF wr = Refused THEN refused(connections[t], sock, masks)
                 ELSE after_write(connections[t], {"writable"}, wr, masks))

\* The text of the errors passed in from outside.
ErrorDetails == <<111, 111, 112, 115>>

\* Connection::error called by the reactor or through a handler's result.
IoError(t) ==
    /\ connections[t].calls < MaxErrors
    /\ \E kind \in ErrorKinds, masks \in ReactorMasks :
          IoStep(t, "error", WouldBlock, kind, "Ok",
                 [error(connections[t], Err(kind, ErrorDetails), masks)
                    EXCEPT !.calls = @ + 1])

\* The connection is driven for as long as the reactor keeps it: while it
\* wants to read or write and has not panicked.
NextIo ==
    \E t \in Tokens :
       /\ Occupied(t)
       /\ connections[t].events \cap {"readable", "writable"} # {}
       /\ ~connections[t].panicked
       /\ \/ IoRead(t)
          \/ IoWrite(t)
          \/ IoError(t)

SpecIo == InitIo /\ [][NextIo]_vars

-----------------------------------------------------------------------------
(* Properties of the output path (SpecConn).                               *)

Conn(t) == connections[t]

\* The bytes the frames buffered so far serialize to, in buffering order.
Stream(c) == Concat([i \in 1..Len(c.wire) |-> Format(c.wire[i])])

\* Every byte that left or will leave: what the stream took, then what the
\* out buffer still holds past its cursor.
AllBytes(c) == c.sent \o Unsent(c.out_buffer)

\* C7: for each connection, the bytes handed to the stream followed by the
\* bytes still unsent in the out buffer are exactly the serialized frames in
\* the order they were buffered; so what the stream took is always a prefix
\* of that concatenation, whatever buffer_frame calls, partial writes,
\* would-block results and buffer reclamations came in between.
C7_BytesInBufferedOrder ==
    \A t \in Tokens : Occupied(t) => AllBytes(Conn(t)) = Stream(Conn(t))

\* C7 witness: after the out buffer was reclaimed (it no longer holds the start
\* of the stream) a further partial write left bytes behind.
C7_Witness ==
    \E t \in Tokens :
       /\ Occupied(t)
       /\ Len(Conn(t).wire) >= 2
       /\ Len(Conn(t).out_buffer.data) < Len(Stream(Conn(t)))
       /\ Conn(t).out_buffer.pos > 0
       /\ Unsent(Conn(t).out_buffer) # <<>>
       /\ last.op = "write"

\* A reading of a byte stream as WebSocket frames (RFC 6455, 5.2) with 7-bit
\* lengths: per frame the mask bit, the masking key and the payload bytes as
\* they are on the wire.
RECURSIVE DecodeStream(_)
DecodeStream(bytes) ==
    IF Len(bytes) < 2 THEN <<>>
    ELSE LET masked == bytes[2] >= 128
             len == bytes[2] % 128
             hdr == IF masked THEN 6 ELSE 2
         IN  <<[masked |-> masked,
                key |-> IF masked THEN SubSeq(bytes, 3, 6) ELSE <<>>,
                raw |-> SubSeq(bytes, hdr + 1, hdr + len)]>>
             \o DecodeStream(Drop(bytes, hdr + len))

Unmasked(raw, key) ==
    [j \in 1..Len(raw) |-> BitXor(raw[j], key[((j - 1) % 4) + 1])]

\* C9: with the default on_send_frame hook, every frame a client buffered is
\* on the wire with mask bit 1, a 4-byte key and the payload XOR-ed with the
\* key; every frame a server buffered is on the wire with mask bit 0 and its
\* payload unchanged.  Holds for data, ping, pong, close frames and fragments.
C9_MaskByEndpoint ==
    \A t \in Tokens :
       (Occupied(t) /\ Conn(t).handler.send_hook = "default") =>
          LET c == Conn(t)
              d == DecodeStream(AllBytes(c))
          IN  /\ Len(d) = Len(c.wire)
              /\ \A i \in 1..Len(d) :
                    IF is_client(c)
                    THEN /\ d[i].masked
                         /\ Len(d[i].key) = 4
                         /\ Len(d[i].raw) = Len(c.wire[i].payload)
                         /\ Unmasked(d[i].raw, d[i].key) = c.wire[i].payload
                    ELSE /\ ~d[i].masked
                         /\ d[i].raw = c.wire[i].payload

\* C9 witness: a client buffered a message in three fragments, the first under
\* a key that changes its bytes.
C9_Witness ==
    \E t \in Tokens :
       /\ Occupied(t)
       /\ is_client(Conn(t))
       /\ Conn(t).handler.send_hook = "default"
       /\ Len(Conn(t).wire) = 3
       /\ Conn(t).wire[3].opcode = "Continue"
       /\ Conn(t).wire[1].mask = <<255, 1, 2, 3>>
       /\ Conn(t).wire[1].payload # <<>>

CeilDiv(a, b) == (a + b - 1) \div b

\* The frames the last send method call buffered.
LastFrames ==
    LET c == Conn(last.token)
    IN  SubSeq(c.wire, last.before + 1, Len(c.wire))

\* C10: a send_message call that returned Ok on a connection that is not
\* closing, whose on_send_frame hook returns the frame, buffers one final
\* frame with the message's opcode when the payload length L is at most
\* fragment_size S; otherwise ceil(L/S) frames: the first with the message's
\* opcode and not final, the middle ones Continue and not final, the last
\* Continue and final, all but the last with S bytes, the payloads joined in
\* order being the message's payload.
C10_Fragmentation ==
    (/\ last.op = "send_message"
     /\ last.r.ok
     /\ last.state \notin {"AwaitingClose", "FinishedClose"}
     /\ Conn(last.token).handler.send_hook # "none") =>
       LET fr == LastFrames
           n == Len(fr)
           data == last.arg.data
           L == Len(data)
           S == Conn(last.token).settings.fragment_size
       IN  IF L <= S
           THEN /\ n = 1
                /\ fr[1].finished
                /\ fr[1].opcode = last.arg.opcode
                /\ fr[1].payload = data
           ELSE /\ n = CeilDiv(L, S)
                /\ fr[1].opcode = last.arg.opcode
                /\ ~fr[1].finished
                /\ \A i \in 2..(n - 1) :
                      fr[i].opcode = "Continue" /\ ~fr[i].finished
                /\ fr[n].opcode = "Continue"
                /\ fr[n].finished
                /\ \A i \in 1..(n - 1) : Len(fr[i].payload) = S
                /\ Concat([i \in 1..n |-> fr[i].payload]) = data

\* C10 witness: a message longer than twice fragment_size was buffered as a
\* first frame, a middle frame and a last frame.
C10_Witness ==
    /\ last.op = "send_message"
    /\ last.r.ok
    /\ Len(last.arg.data) > 2 * FragmentSize
    /\ Len(LastFrames) = 3
    /\ Conn(last.token).handler.send_hook = "default"

\* The frame on_send_frame returned to the last send_message call.
LastHooked ==
    on_send_frame(Conn(last.token),
                  FrameMessage(last.arg.data, last.arg.opcode, TRUE))[1]

\* The last call was a send_message that returned Ok and fragmented the frame
\* on_send_frame returned.
LastFragmented ==
    /\ last.op = "send_message"
    /\ last.r.ok
    /\ last.state \notin {"AwaitingClose", "FinishedClose"}
    /\ Conn(last.token).handler.send_hook # "none"
    /\ Len(last.arg.data) > Conn(last.token).settings.fragment_size

\* C11 as stated: every chunk of a fragmented message carries the rsv1, rsv2
\* and rsv3 bits of the frame on_send_frame returned.
C11_RsvOnEveryChunk ==
    LastFragmented =>
       \A i \in 1..Len(LastFrames) :
          /\ LastFrames[i].rsv1 = LastHooked.rsv1
          /\ LastFrames[i].rsv2 = LastHooked.rsv2
          /\ LastFrames[i].rsv3 = LastHooked.rsv3

\* C11 amended: the first chunk carries the rsv1, rsv2 and rsv3 bits of the
\* frame on_send_frame returned; the Continue chunks after it carry none.
C11_RsvOnFirstChunk ==
    LastFragmented =>
       /\ LastFrames[1].rsv1 = LastHooked.rsv1
       /\ LastFrames[1].rsv2 = LastHooked.rsv2
       /\ LastFrames[1].rsv3 = LastHooked.rsv3
       /\ \A i \in 2..Len(LastFrames) :
             ~LastFrames[i].rsv1 /\ ~LastFrames[i].rsv2 /\ ~LastFrames[i].rsv3

\* C11 witness: a frame on which on_send_frame set rsv1 was buffered as a
\* first, a middle and a last chunk.
C11_Witness ==
    /\ LastFragmented
    /\ Conn(last.token).handler.send_hook = "rsv1"
    /\ LastHooked.rsv1
    /\ Len(LastFrames) = 3

-----------------------------------------------------------------------------
(* Properties of one connection under reads, writes and errors (SpecIo).   *)

Range(s) == {s[i] : i \in 1..Len(s)}

\* The status code of a Close frame as RFC 6455 has it: the first two bytes
\* of the payload in network byte order; -1 when the payload has no code.
WireCode(f) ==
    IF Len(f.payload) >= 2 THEN 256 * f.payload[1] + f.payload[2] ELSE -1

\* The codes that are never valid as received codes.
InvalidWire(n) ==
    \/ n < 1000
    \/ n >= 5000
    \/ n \in {1004, 1014, 1016, 1100, 2000, 2999}
    \/ n \in {1005, 1006, 1012, 1013, 1015}

\* What the last step added: frames handed to Frame::format, calls of
\* on_error, calls of on_close.
IoNewFrames ==
    SubSeq(last.after.wire, Len(last.before.wire) + 1, Len(last.after.wire))
IoNewErrors ==
    SubSeq(last.after.handler.errors, Len(last.before.handler.errors) + 1,
           Len(last.after.handler.errors))
IoNewCloses ==
    SubSeq(last.after.handler.closes, Len(last.before.handler.closes) + 1,
           Len(last.after.handler.closes))
IoNewCloseFrames == SelectSeq(IoNewFrames, LAMBDA f : f.opcode = "Close")

\* The last step read one Close frame on a connection that was Open.
IoReadClose ==
    /\ last.op = "read"
    /\ last.rd = "Data"
    /\ last.before.state = "Open"
    /\ Len(last.frames) >= 1
    /\ last.frames[1].opcode = "Close"

\* C12: a received Close frame whose 2-byte code is below 1000 (0 included),
\* 5000 or above, one of 1004, 1014, 1016, 1100, 2000, 2999, or one of 1005,
\* 1006, 1012, 1013, 1015 surfaces a Protocol error to on_error, and no Close
\* frame the connection buffers in reply carries that code.
C12_InvalidCodeRefused ==
    (IoReadClose /\ WireCode(last.frames[1]) >= 0
                 /\ InvalidWire(WireCode(last.frames[1])))
    => /\ "Protocol" \in Range(IoNewErrors)
       /\ \A i \in 1..Len(IoNewCloseFrames) :
             WireCode(IoNewCloseFrames[i]) # WireCode(last.frames[1])

\* C13: an Open connection that reads a Close frame buffers exactly one Close
\* frame in reply and ends the read in FinishedClose.  The reply has the two
\* code bytes it received and no reason when the code is valid and the reason
\* is UTF-8, the code 1007 when the reason is not UTF-8, and an empty body
\* when the payload holds no 2-byte code.  Neither the frames behind the Close
\* frame nor those of later reads reach on_message.
C13_CloseReply ==
    /\ IoReadClose =>
         /\ Len(IoNewCloseFrames) = 1
         /\ last.after.state = "FinishedClose"
         /\ last.after.handler.messages = last.before.handler.messages
         /\ (/\ WireCode(last.frames[1]) >= 0
             /\ ~InvalidWire(WireCode(last.frames[1]))
             /\ IsUtf8(Drop(last.frames[1].payload, 2)))
            => IoNewCloseFrames[1].payload = Take(last.frames[1].payload, 2)
         /\ (/\ WireCode(last.frames[1]) >= 0
             /\ ~InvalidWire(WireCode(last.frames[1]))
             /\ ~IsUtf8(Drop(last.frames[1].payload, 2)))
            => WireCode(IoNewCloseFrames[1]) = 1007
         /\ WireCode(last.frames[1]) < 0
            => IoNewCloseFrames[1].payload = <<>>
    /\ (/\ last.op = "read"
        /\ last.before.state = "FinishedClose"
        /\ last.before.handler.closes # <<>>)
       => last.after.handler.messages = last.before.handler.messages

\* The handshake of this connection has failed: a client has read a complete
\* response that does not parse or whose status is not 101, a server a
\* request that does not parse.
HandshakeFailed(c) ==
    \/ is_client(c) /\ c.res \in {"301", "403", "Bad"}
    \/ is_server(c) /\ c.req = "Bad"

\* C14: a connection whose handshake has failed is in Connecting or in
\* FinishedClose, never in Open, AwaitingClose or RespondingClose; no frame
\* has been buffered on it, and on_error has been called.
C14_FailedHandshakeFinishes ==
    \A t \in Tokens :
       (Occupied(t) /\ HandshakeFailed(connections[t]))
       => /\ connections[t].state \in {"Connecting", "FinishedClose"}
          /\ connections[t].wire = <<>>
          /\ connections[t].handler.errors # <<>>

\* C15: on_close and on_message are not called on a connection on which
\* on_open has not been called.
C15_NoCloseNoMessageBeforeOpen ==
    \A t \in Tokens :
       (Occupied(t) /\ connections[t].handler.opened = 0)
       => /\ connections[t].handler.closes = <<>>
          /\ connections[t].handler.messages = 0

\* C16: on_open is called at most once on a connection, and only in the step
\* that ends its handshake with status 101: on a server the write that takes
\* the last byte of the 101 response, on a client the read that completes the
\* 101 response to its fully written request.  This holds as well for a
\* client that was reset to its next address before.
C16_OpenOnceAfter101 ==
    /\ \A t \in Tokens :
          Occupied(t) => connections[t].handler.opened <= 1
    /\ (last.op # "none"
        /\ last.after.handler.opened # last.before.handler.opened)
       => /\ last.before.handler.opened = 0
          /\ last.before.state = "Connecting"
          /\ last.after.state # "Connecting"
          /\ last.after.req = "Valid"
          /\ last.after.res = "101"
          /\ last.after.hs_pos = HandshakeLen
          /\ is_server(last.after) => last.op = "write" /\ last.rd = "Wrote"
          /\ is_client(last.after) => last.op = "read" /\ last.rd = "Data"

\* A client that was refused at its first address, reset, and opened at its
\* second.
C16_Witness ==
    /\ last.op = "read"
    /\ is_client(last.after)
    /\ last.after.addresses = 0
    /\ last.before.handler.opened = 0
    /\ last.after.handler.opened = 1
    /\ last.after.state = "Open"

\* The last step passed a non-I/O error to Connection::error on a server in
\* Connecting: an error from outside, or a request that does not parse.
IoServerHandshakeError ==
    /\ last.op \in {"error", "read"}
    /\ is_server(last.before)
    /\ last.before.state = "Connecting"
    /\ IoNewErrors # <<>>
    /\ IoNewErrors[1] # "Io"

\* The last step wrote the rest of an error response of a server.
IoErrorResponseWritten ==
    /\ last.op = "write"
    /\ last.rd = "Wrote"
    /\ is_server(last.before)
    /\ last.before.state = "Connecting"
    /\ last.before.res \in {"400", "500"}
    /\ last.after.hs_pos = HandshakeLen

\* C17: on a server in Connecting a Protocol error puts the 400 response, any
\* other error but an I/O error the 500 response into the response buffer,
\* followed by the error's text, with one call of on_error; the connection
\* then wants to write and not to read.  The write that completes that
\* response leaves the event set empty; on_open and on_close are not called,
\* on_error not again.
C17_ServerErrorResponse ==
    /\ IoServerHandshakeError
       => /\ last.after.res = (IF IoNewErrors[1] = "Protocol" THEN "400" ELSE "500")
          /\ last.op = "error" => last.after.res_body = ErrorDetails
          /\ last.op = "read" => last.after.res_body = Text(72)
          /\ last.after.events \cap {"readable", "writable"} = {"writable"}
          /\ Len(IoNewErrors) = 1
          /\ last.after.state = "Connecting"
          /\ last.after.handler.opened = 0
          /\ last.after.handler.closes = <<>>
    /\ IoErrorResponseWritten
       => /\ last.after.events = {}
          /\ IoNewErrors = <<>>
          /\ last.after.handler.opened = 0
          /\ last.after.handler.closes = <<>>
          /\ last.after.wire = <<>>

\* A Protocol error on a server in Connecting, and the 400 response written
\* to its end.
C17_Witness ==
    /\ IoErrorResponseWritten
    /\ last.before.res = "400"
    /\ last.before.res_body = ErrorDetails
    /\ last.after.handler.errors = <<"Protocol">>

\* The last step passed an error of one of the four kinds that close the
\* connection to Connection::error, on a connection past its handshake that
\* had not sent a Close frame, with panic_on_internal off.
IoClosingError ==
    /\ last.op = "error"
    /\ last.kind \in {"Internal", "Capacity", "Protocol", "Encoding"}
    /\ last.before.state \in {"Open", "RespondingClose"}
    /\ ~(last.kind = "Internal" /\ last.before.settings.panic_on_internal)

\* The status code the Close frame for an error of this kind is to carry.
CodeOfKind(kind) ==
    CASE kind = "Internal" -> 1011
      [] kind = "Capacity" -> 1009
      [] kind = "Protocol" -> 1002
      [] OTHER -> 1007

\* C18: on a connection that is Open, or has read the peer's Close frame and
\* not replied yet, an error of kind Internal, Capacity, Protocol or Encoding
\* is passed to on_error once and one Close frame is buffered, with the
\* status code 1011, 1009, 1002 or 1007; a received Close frame with the code
\* 1004 is answered by one Close frame with the code 1002.
C18_ErrorClosesWithCode ==
    /\ IoClosingError
       => /\ IoNewErrors = <<last.kind>>
          /\ Len(IoNewFrames) = 1
          /\ IoNewFrames[1].opcode = "Close"
          /\ WireCode(IoNewFrames[1]) = CodeOfKind(last.kind)
    /\ (IoReadClose /\ WireCode(last.frames[1]) = 1004)
       => /\ IoNewErrors = <<"Protocol">>
          /\ Len(IoNewFrames) = 1
          /\ IoNewFrames[1].opcode = "Close"
          /\ WireCode(IoNewFrames[1]) = 1002

\* The last step passed an error of kind Custom, Queue or Timer to a
\* connection past its handshake.
IoQuietError ==
    /\ last.op = "error"
    /\ last.kind \in {"Custom", "Queue", "Timer"}
    /\ last.before.state # "Connecting"

-----------------------------------------------------------------------------
(* Properties of the table of connections (Spec, SpecQueue).               *)

\* C20: after every step of the reactor each connection in the table wants
\* to read or to write: one that a step left wanting neither was removed in
\* that step.
C20_IdleConnectionsRemoved ==
    loop.pc # "panicked"
    => \A t \in Tokens :
          Occupied(t)
          => connections[t].events \cap {"readable", "writable"} # {}

\* The last step ended a tick of the event loop: check_count has run.
TickEnded == last.op = "check_count"

\* C21, as claimed: a reactor without a listener whose table is empty at the
\* end of a tick has called the factory's on_shutdown and leaves its loop; a
\* reactor with a listener leaves its loop only after a Shutdown command or
\* an interrupt.
C21_ClientLeavesWhenEmpty ==
    /\ (TickEnded /\ ~listener /\ SlabLen(connections) = 0)
       => rstate = "Inactive" /\ loop.shutdowns >= 1
    /\ (TickEnded /\ listener /\ rstate = "Inactive")
       => loop.shutdowns >= 1 \/ last.interrupted

\* C21, amended: the same, except that a tick whose poll was interrupted
\* ends the loop without a call of on_shutdown.
C21_ClientLeavesUnlessInterrupted ==
    /\ (TickEnded /\ ~listener /\ SlabLen(connections) = 0)
       => /\ rstate = "Inactive"
          /\ loop.shutdowns >= 1 \/ last.interrupted
    /\ (TickEnded /\ listener /\ rstate = "Inactive")
       => loop.shutdowns >= 1 \/ last.interrupted

\* A client reactor whose only connection was removed in a tick: on_shutdown
\* was called at the end of that tick.
C21_Witness ==
    /\ TickEnded
    /\ ~last.interrupted
    /\ ~listener
    /\ SlabLen(connections) = 0
    /\ lost # <<>>
    /\ loop.shutdowns = 1
    /\ rstate = "Inactive"

\* The last step was an accept or a connect that found the table full.
TableWasFull ==
    /\ last.op \in {"accept", "connect"}
    /\ SlabLen(last.conns) = DefaultSettings.max_connections

\* C22: the table never holds more than max_connections connections; an
\* accept or connect that finds it full returns a Capacity error and leaves
\* the table and next_connection_id as they were, so no handler was made;
\* one that finds room adds one connection under the next connection id.
C22_TableBounded ==
    /\ SlabLen(connections) <= DefaultSettings.max_connections
    /\ TableWasFull
       => /\ last.result = "Capacity"
          /\ connections = last.conns
          /\ next_connection_id = last.id
    /\ (last.op \in {"accept", "connect"} /\ ~TableWasFull)
       => /\ last.result = "Ok"
          /\ SlabLen(connections) = SlabLen(last.conns) + 1
          /\ next_connection_id = last.id + 1

\* An accept that found the table full.
C22_Witness ==
    /\ TableWasFull
    /\ last.op = "accept"
    /\ last.result = "Capacity"
    /\ SlabLen(connections) = DefaultSettings.max_connections
-----------------------------------------------------------------------------
(* SpecCodec: Frame::format, Frame::parse and Frame::close applied to       *)
(* frames, byte strings and close codes drawn from bounded sets.  Only      *)
(* `last` changes: it holds the input of the call and what the call         *)
(* returned; each behaviour is one call.                                    *)

\* The longest payload of a frame given to format: one byte over the longest
\* payload of a control frame, so that the 16-bit length is written.
MaxCodecPayload == 126

OnlyLast ==
    UNCHANGED <<connections, next_connection_id, listener, queue, rstate,
                loop, lost, timer, produced, taken>>

InitPure ==
    /\ connections = [t \in Tokens |-> Vacant]
    /\ next_connection_id = 0
    /\ listener = FALSE
    /\ queue = <<>>
    /\ rstate = "Active"
    /\ loop = [pc |-> "poll", pending |-> <<>>, k |-> 0, shutdowns |-> 0]
    /\ lost = <<>>
    /\ timer = {}
    /\ last = NoStep
    /\ produced = [p \in Producers |-> 0]
    /\ taken = <<>>

CodecPayloads ==
    {<<>>, <<65>>, <<1, 2, 3, 4, 5>>,
     [i \in 1..(MaxCodecPayload - 1) |-> i], [i \in 1..MaxCodecPayload |-> i]}

CodecFlags ==
    {<<FALSE, FALSE, FALSE>>, <<TRUE, FALSE, FALSE>>, <<FALSE, TRUE, TRUE>>}

\* The frames given to format: every opcode, both values of the final flag,
\* reserved bits, no mask or one of two masks.
CodecFrames ==
    { [FrameDefault EXCEPT !.finished = fin, !.rsv1 = rsv[1], !.rsv2 = rsv[2],
                           !.rsv3 = rsv[3], !.opcode = op, !.mask = mask,
                           !.length = Len(data), !.payload = data] :
        fin \in BOOLEAN, rsv \in CodecFlags, op \in OpCodes,
        mask \in {NoMask} \cup MaskSet, data \in CodecPayloads }

\* The bytes of a frame whose length is written with ext extra bytes (0, 2 or
\* 8), as a peer may write them; payload and mask as given.
Encoded(first, masked, ext, mask, data) ==
    <<first, (IF masked THEN 128 ELSE 0)
             + (IF ext = 0 THEN Len(data) ELSE IF ext = 2 THEN 126 ELSE 127)>>
    \o BeBytes(Len(data), ext) \o mask \o data

\* The byte strings given to parse: frames of every opcode nibble below 12 with
\* each form of the length, masked or not, whole or cut short by a byte.
CodecBytes ==
    LET whole == { Encoded(first, mask # NoMask, ext, mask, data) :
                     first \in {op + fl : op \in 0..11, fl \in {0, 128, 192}},
                     ext \in {0, 2, 8}, mask \in {NoMask} \cup MaskSet,
                     data \in {<<>>, <<65>>, <<1, 2, 3, 4, 5>>} }
    IN  whole \cup { Take(b, Len(b) - 1) : b \in whole }

\* Frame::format on a frame, then Frame::parse on the bytes written.
CodecFormat ==
    /\ last = NoStep
    /\ \E f \in CodecFrames :
          LET done(bytes) == [op |-> "format", frame |-> f, bytes |-> bytes,
                              parsed |-> Parse(bytes)]
          IN  last' = done(Format(f))
    /\ OnlyLast

\* Frame::parse on a byte string, then Frame::format on the frame parsed.
CodecParse ==
    /\ last = NoStep
    /\ \E b \in CodecBytes :
          LET done(p) == [op |-> "parse", bytes |-> b, parsed |-> p,
                          again |-> IF p.kind = "Frame" THEN Format(p.frame)
                                    ELSE <<>>]
          IN  last' = done(Parse(b))
    /\ OnlyLast

\* The codes and reasons given to Frame::close.
CodecCodes == {CC(n) : n \in CodeNames} \cup {Other(3000), Other(771)}
CodecReasons == {<<>>, <<65>>, <<66, 67>>}

\* Frame::close on a code and a reason.
CodecClose ==
    /\ last = NoStep
    /\ \E code \in CodecCodes, reason \in CodecReasons :
          last' = [op |-> "close", code |-> code, reason |-> reason,
                   frame |-> FrameClose(code, reason)]
    /\ OnlyLast

NextCodec ==
    \/ CodecFormat
    \/ CodecParse
    \/ CodecClose

SpecCodec == InitPure /\ [][NextCodec]_vars

-----------------------------------------------------------------------------
(* Properties of the frame codec (SpecCodec).                               *)

\* format then parse gives back the frame: flags, opcode, mask, the payload
\* once the mask is taken off, and every byte written is consumed.
ParseOfFormatIsFrame ==
    last.op = "format" =>
        /\ last.parsed.kind = "Frame"
        /\ last.parsed.frame.finished = last.frame.finished
        /\ last.parsed.frame.rsv1 = last.frame.rsv1
        /\ last.parsed.frame.rsv2 = last.frame.rsv2
        /\ last.parsed.frame.rsv3 = last.frame.rsv3
        /\ last.parsed.frame.opcode = last.frame.opcode
        /\ last.parsed.frame.mask = last.frame.mask
        /\ into_data(last.parsed.frame) = last.frame.payload
        /\ last.parsed.used = Len(last.bytes)

\* parse accepted the whole byte string as one frame.
ParsedWhole ==
    /\ last.op = "parse"
    /\ last.parsed.kind = "Frame"
    /\ last.parsed.used = Len(last.bytes)

\* C23: Frame serialization and parsing are mutually inverse: parsing the
\* bytes format wrote for a frame gives a frame with the same final flag,
\* reserved bits, opcode, mask and unmasked payload and consumes exactly those
\* bytes; and serializing the frame parsed from a byte string that parse
\* accepts as one complete frame reproduces that byte string.
C23_FormatParseInverse ==
    /\ ParseOfFormatIsFrame
    /\ ParsedWhole => last.again = last.bytes

-----------------------------------------------------------------------------
(* capped_buffer.rs: CappedBuffer, a Vec<u8> with a limit.                  *)

\* CappedBuffer::new: an empty buffer; capacity is what is allocated at first.
CappedNew(capacity, max) ==
    [buf |-> <<>>, capacity |-> IF capacity > max THEN max ELSE capacity,
     max |-> max]

\* CappedBuffer::remaining
remaining(b) == b.max - Len(b.buf)

\* CappedBuffer::shift forgetting one byte at most.
shift_one(b, n) ==
    IF n >= Len(b.buf) THEN [b EXCEPT !.buf = <<>>]
    ELSE [b EXCEPT !.buf = SubSeq(@, Min(n, 1) + 1, Len(@))]

\* CappedBuffer::shift: the bytes from offset n on are copied to the front
\* and the length is cut by n; everything goes when n is the length or more.
shift(b, n) ==
    IF n >= Len(b.buf) THEN [b EXCEPT !.buf = <<>>]
    ELSE [b EXCEPT !.buf = [i \in 1..(Len(@) - n) |-> @[n + i]]]

\* io::Write::write for CappedBuffer: the data is cut to what remains.
capped_write(b, data) ==
    LET cut(d) == [b |-> [b EXCEPT !.buf = @ \o d], ret |-> Len(d)]
    IN  cut(IF Len(data) > remaining(b) THEN SubSeq(data, 1, remaining(b))
            ELSE data)

\* io::Write::write_all for CappedBuffer: all of the data or an error.
write_all(b, data) ==
    IF Len(data) <= remaining(b)
    THEN [b |-> [b EXCEPT !.buf = @ \o data], ret |-> "Ok"]
    ELSE [b |-> b, ret |-> "InvalidInput"]

-----------------------------------------------------------------------------
(* SpecCapped: a CappedBuffer and the calls made on it, in any order.  The  *)
(* buffer is last.b; last also holds the call, its argument, what it        *)
(* returned and the buffer before it.                                       *)

\* The largest limit of a CappedBuffer.
MaxCap == 3
\* The longest data written in one call.
MaxWrite == 4

\* The data written: the first n of these bytes, or the last n.
CappedPattern == [i \in 1..MaxWrite |-> 10 + i]
CappedData ==
    {SubSeq(CappedPattern, 1, n) : n \in 0..MaxWrite}
    \cup {SubSeq(CappedPattern, MaxWrite - n + 1, MaxWrite) : n \in 0..MaxWrite}

InitCapped ==
    /\ connections = [t \in Tokens |-> Vacant]
    /\ next_connection_id = 0
    /\ listener = FALSE
    /\ queue = <<>>
    /\ rstate = "Active"
    /\ loop = [pc |-> "poll", pending |-> <<>>, k |-> 0, shutdowns |-> 0]
    /\ lost = <<>>
    /\ timer = {}
    /\ \E capacity \in {0, MaxCap + 1}, max \in 0..MaxCap :
          last = [op |-> "new", b |-> CappedNew(capacity, max),
                  before |-> CappedNew(capacity, max), data |-> <<>>, n |-> 0,
                  ret |-> "Ok"]
    /\ produced = [p \in Producers |-> 0]
    /\ taken = <<>>

CappedWrite ==
    /\ \E data \in CappedData :
          LET done(w) == [op |-> "write", b |-> w.b, before |-> last.b,
                          data |-> data, n |-> 0, ret |-> w.ret]
          IN  last' = done(capped_write(last.b, data))
    /\ OnlyLast

CappedWriteAll ==
    /\ \E data \in CappedData :
          LET done(w) == [op |-> "write_all", b |-> w.b, before |-> last.b,
                          data |-> data, n |-> 0, ret |-> w.ret]
          IN  last' = done(write_all(last.b, data))
    /\ OnlyLast

CappedShift ==
    /\ \E n \in 0..(MaxCap + 1) :
          last' = [op |-> "shift", b |-> shift(last.b, n), before |-> last.b,
                   data |-> <<>>, n |-> n, ret |-> "Ok"]
    /\ OnlyLast

NextCapped ==
    \/ CappedWrite
    \/ CappedWriteAll
    \/ CappedShift

SpecCapped == InitCapped /\ [][NextCapped]_vars

-----------------------------------------------------------------------------
(* SpecControl: the calls that buffer control frames, Connection::send_ping, *)
(* send_pong and error, on an open connection with data and error texts of  *)
(* up to one byte more than a control frame may carry.                      *)

\* n bytes of data.
Bytes(n) == [i \in 1..n |-> i]

\* The data of the pings and pongs asked for through the Sender.
ControlData == {<<>>, <<9>>, Bytes(ControlLimit), Bytes(ControlLimit + 1)}

\* The texts of the errors a handler returns: with the two bytes of the code
\* the longest makes a payload one byte over the limit.
ControlTexts == {<<69>>, Bytes(ControlLimit - 2), Bytes(ControlLimit - 1)}

\* One call on the connection, and how many frames it had buffered before.
ControlCall(t, op, c2) ==
    /\ connections[t].calls < MaxCalls
    /\ connections' = [connections EXCEPT ![t] = [c2 EXCEPT !.calls = @ + 1]]
    /\ last' = [op |-> op, token |-> t, before |-> Len(connections[t].wire)]
    /\ ConnUnchanged

\* Signal::Ping(data) from the queue: Connection::send_ping.
ControlPing(t) ==
    \E data \in ControlData, masks \in MaskSeqs :
       ControlCall(t, "send_ping", send_ping(connections[t], data, masks).c)

\* Signal::Pong(data) from the queue: Connection::send_pong.
ControlPong(t) ==
    \E data \in ControlData, masks \in MaskSeqs :
       ControlCall(t, "send_pong", send_pong(connections[t], data, masks).c)

\* Connection::error with an error a handler returned.
ControlError(t) ==
    \E kind \in {"Internal", "Capacity", "Protocol", "Encoding"},
       text \in ControlTexts, masks \in MaskSeqs :
       ControlCall(t, "error", error(connections[t], Err(kind, text), masks))

NextControl ==
    \E t \in Tokens :
       /\ Occupied(t)
       /\ \/ ControlPing(t)
          \/ ControlPong(t)
          \/ ControlError(t)

SpecControl == InitConn /\ [][NextControl]_vars

\* The frames the connections have buffered for output over their lives.
Buffered ==
    UNION { {c.wire[i] : i \in 1..Len(c.wire)} :
              c \in {connections[t] : t \in {u \in Tokens : Occupied(u)}} }

\* C24: every control frame (Close, Ping, Pong) a connection buffers for
\* output is final and has a payload of at most 125 bytes, pings and pongs
\* with data from the Sender and Close frames with an error's text included.
C24_ControlFramesSmall ==
    \A f \in Buffered :
       is_control(f) => is_final(f) /\ Len(f.payload) <= ControlLimit

\* C25: the payload of the Close frame built for a code other than Empty and
\* a reason is the high byte of the code's registry value, then its low byte,
\* then the bytes of the reason (1000 gives 3, 232); for CloseCode::Empty the
\* payload is empty whatever the reason.
C25_ClosePayload ==
    last.op = "close" =>
        last.frame.payload =
            IF last.code = CC("Empty") THEN <<>>
            ELSE <<CloseCodeValue(last.code) \div 256,
                   CloseCodeValue(last.code) % 256>> \o last.reason

-----------------------------------------------------------------------------
(* SpecPing: an open connection that sends messages, is written, and is read *)
(* with pings, pongs and the fragments of messages coming in.               *)

\* Frames one connection reads over its life (SpecPing).
MaxPingRx == 3

PingA == FramePing(<<9>>)
PingB == FramePing(<<>>)

\* What one read brings: pings, a pong, the frames of a message with and
\* without a ping between them, a ping behind a Close frame.
PingBatches ==
    {<<PingA>>, <<PingA, PingB>>, <<FramePong(<<9>>)>>, <<RxText>>,
     <<RxFirst>>, <<RxLast>>, <<PingA, RxLast>>, <<RxFirst, PingA>>,
     <<RxFirst, PingA, RxLast>>, <<PeerClose(1000, <<>>), PingA>>}

\* handle_event, readable, on an open connection: conn.read().
PingRead(t) ==
    /\ "readable" \in connections[t].events
    /\ \E b \in {x \in PingBatches : connections[t].rx + Len(x) <= MaxPingRx},
          masks \in MaskSeqs :
          IoStep(t, "read", Data(b), "None", "Ok",
                 after_read(connections[t], {"readable"}, Data(b), masks))

\* Signal::Message from the queue: Connection::send_message with a message
\* of one frame, which two calls on a server and one on a client make
\* out_buffer_capacity bytes of.
PingSend(t) ==
    \E masks \in MaskSeqs :
       ConnCall(t, "send_message", [opcode |-> "Text", data |-> Take(Pattern, FragmentSize)],
                send_message(connections[t],
                             [opcode |-> "Text", data |-> Take(Pattern, FragmentSize)],
                             masks))

\* handle_event, writable: conn.write() with the stream taking all there is.
PingWrite(t) ==
    /\ "writable" \in connections[t].events
    /\ IoStep(t, "write", Wrote(Remaining(connections[t])), "None", "Ok",
              after_write(connections[t], {"writable"},
                          Wrote(Remaining(connections[t])), <<NoMask>>))

NextPing ==
    \E t \in Tokens :
       /\ Occupied(t)
       /\ \/ PingSend(t)
          \/ PingWrite(t)
          \/ PingRead(t)

SpecPing == InitConn /\ [][NextPing]_vars

-----------------------------------------------------------------------------
(* Properties of received pings (SpecPing).                                 *)

IsPing(f) == f.opcode = "Ping"

\* The pings of the frames read in the last step, in their order.
PingsRead == SelectSeq(last.frames, IsPing)

\* The connection after the same read without the pings.
PingFree ==
    after_read(last.before, {"readable"},
               Data(SelectSeq(last.frames, LAMBDA f : ~IsPing(f))),
               <<NoMask>>)

\* The last step read frames on an open connection whose handler lets frames
\* through, and the frames other than the pings raise no error and leave the
\* connection open: every ping of the read arrives on an open connection.
PingsOnOpen ==
    /\ last.op = "read"
    /\ last.rd = "Data"
    /\ last.before.state = "Open"
    /\ last.before.handler.send_hook # "none"
    /\ PingFree.state = "Open"
    /\ PingFree.handler.errors = last.before.handler.errors

\* The first n pings read are answered: n frames were buffered, each a Pong
\* with the payload of its ping.
Answered(n) ==
    /\ Len(IoNewFrames) = n
    /\ \A i \in 1..n :
          /\ IoNewFrames[i].opcode = "Pong"
          /\ IoNewFrames[i].payload = PingsRead[i].payload

\* The fragments kept and the messages delivered are those of the read
\* without the pings.
PingsTransparent ==
    /\ last.after.fragments = PingFree.fragments
    /\ last.after.handler.messages = PingFree.handler.messages

\* C26: for every Ping frame received on an open connection exactly one Pong
\* frame with the same payload is buffered, in the order of the pings; a ping
\* between the fragments of a message leaves the fragments as they are and
\* the message is delivered; a received Pong buffers nothing.
C26_PingsAnswered ==
    PingsOnOpen => Answered(Len(PingsRead)) /\ PingsTransparent

\* C26, amended: as above unless buffering a Pong fails with a Capacity
\* error; then the pings before it are answered, in order, and no frame is
\* buffered after them.
C26_PingsAnsweredUnlessFull ==
    PingsOnOpen =>
        IF "Capacity" \in Range(IoNewErrors)
        THEN /\ ~last.before.settings.out_buffer_grow
             /\ \E n \in 0..(Len(PingsRead) - 1) : Answered(n)
        ELSE Answered(Len(PingsRead)) /\ PingsTransparent

\* A ping between the two fragments of a message, all in one read: one Pong
\* with the ping's payload, one message delivered, no fragment left.
C26_Witness ==
    /\ PingsOnOpen
    /\ last.frames = <<RxFirst, PingA, RxLast>>
    /\ Answered(1)
    /\ IoNewFrames[1].payload = <<9>>
    /\ last.after.handler.messages = last.before.handler.messages + 1
    /\ last.after.fragments = <<>>

-----------------------------------------------------------------------------
(* Properties of Connection::reset (SpecIo).                                *)

\* The last step was a read or a write of a client in Connecting that failed
\* with connection-refused.
RefusedConnecting ==
    /\ last.op \in {"read", "write"}
    /\ last.rd = "Refused"
    /\ is_client(last.before)
    /\ is_connecting(last.before)

\* The connection was reset to its next address: one address fewer, the
\* request at its first byte, writable only, no callback.
WasReset ==
    /\ last.after.addresses = last.before.addresses - 1
    /\ last.after.hs_pos = 0
    /\ last.after.req = last.before.req
    /\ last.after.events \cap {"readable", "writable"} = {"writable"}
    /\ is_connecting(last.after)
    /\ last.after.handler = last.before.handler

\* The connection was dropped: the I/O error went to on_error, nothing more
\* is wanted of it, and on_open was not called.
WasDropped ==
    /\ IoNewErrors = <<"Io">>
    /\ last.after.events = {}
    /\ last.after.handler.opened = 0

\* No step gives a connection an address back.
AddressesOnce ==
    last.op \in {"read", "write", "error"} =>
        last.after.addresses <= last.before.addresses

\* reset on a server connection or on one past Connecting: an Internal error.
ResetRefused ==
    \A t \in Tokens :
       (Occupied(t) /\ (is_server(connections[t]) \/ ~is_connecting(connections[t])))
          => \A sock \in {"Ok", "Err"} :
                reset(connections[t], sock).r.kind = "Internal"

-----------------------------------------------------------------------------
(* Properties of the size of the out buffer (SpecConn).                     *)

IsSend == last.op \in {"send_message", "send_ping", "send_pong", "send_close"}

\* The unsent bytes of a connection whose buffer may not grow are never more
\* than out_buffer_capacity.
OutBufferBounded ==
    \A t \in Tokens :
       (Occupied(t) /\ ~Conn(t).settings.out_buffer_grow)
          => Len(Unsent(Conn(t).out_buffer)) <= Conn(t).settings.out_buffer_capacity

\* A send that failed with a Capacity error buffered no frame.
CapacityBuffersNothing ==
    (IsSend /\ last.r.kind = "Capacity")
       => Len(Conn(last.token).wire) = last.before

\* No send fails with a Capacity error on a connection whose buffer may grow.
GrowNeverFull ==
    (IsSend /\ Conn(last.token).settings.out_buffer_grow)
       => last.r.kind # "Capacity"

\* C28: with out_buffer_grow off the out buffer never holds more than
\* out_buffer_capacity bytes, and a send that does not fit after the written
\* bytes were reclaimed fails with a Capacity error and buffers nothing; with
\* out_buffer_grow on no send fails with a Capacity error.
C28_OutBufferCapped ==
    /\ OutBufferBounded
    /\ CapacityBuffersNothing
    /\ GrowNeverFull

\* C29: after any calls of write, write_all and shift, the length of a
\* CappedBuffer is at most its limit and remaining() is the limit minus the
\* length; write appends the first min(n, remaining) bytes of its data and
\* returns that count; write_all appends all of its data or returns an error
\* and leaves the contents as they were; shift(n) removes the first
\* min(n, length) bytes and keeps the rest in order.
C29_CappedBuffer ==
    LET old == last.before.buf
        now == last.b.buf
        room == last.b.max - Len(old)
    IN  /\ Len(now) <= last.b.max
        /\ remaining(last.b) + Len(now) = last.b.max
        /\ last.b.max = last.before.max
        /\ last.op = "write" =>
              /\ now = old \o SubSeq(last.data, 1, Min(Len(last.data), room))
              /\ last.ret = Min(Len(last.data), room)
        /\ last.op = "write_all" =>
              IF Len(last.data) <= room
              THEN now = old \o last.data /\ last.ret = "Ok"
              ELSE now = old /\ last.ret # "Ok"
        /\ last.op = "shift" =>
              now = SubSeq(old, Min(last.n, Len(old)) + 1, Len(old))

\* A write of more than what remains into a buffer that holds bytes fills the
\* buffer to its limit with the first bytes of the data.
C29_Witness ==
    /\ last.op = "write"
    /\ last.before.buf # <<>>
    /\ Len(last.data) > last.b.max - Len(last.before.buf)
    /\ last.ret > 0
    /\ Len(last.b.buf) = last.b.max

-----------------------------------------------------------------------------
(* Properties of timeouts (SpecStale).                                      *)

\* on_timeout was called only on connections on which on_new_timeout had
\* been called with that event, in the table or removed from it.
TimeoutOnlyAnnounced ==
    /\ \A t \in Tokens :
          Occupied(t) =>
             connections[t].handler.timeouts \subseteq connections[t].handler.new_timeouts
    /\ \A i \in 1..Len(lost) :
          lost[i].handler.timeouts \subseteq lost[i].handler.new_timeouts

\* on_new_timeout was called only on a connection through whose Sender, or
\* through the broadcast Sender, a timeout was requested.
TimeoutOnlyRequested ==
    \A t \in Tokens :
       (Occupied(t) /\ connections[t].handler.new_timeouts # {}) =>
          \E i \in 1..Len(taken) :
             /\ taken[i].signal.kind = "Timeout"
             /\ \/ taken[i].token = ALL
                \/ /\ taken[i].token = t
                   /\ taken[i].connection_id = connections[t].connection_id

\* An expired timeout of the broadcast Sender has fired on every connection
\* it was announced to that is in the table.
BroadcastFires ==
    last.op = "timer" =>
       \A i \in 1..Len(last.fired) :
          last.fired[i].connection = ALL =>
             \A t \in Tokens :
                (Occupied(t) /\ last.fired[i].event \in connections[t].handler.new_timeouts)
                   => last.fired[i].event \in connections[t].handler.timeouts

\* C30: on_timeout(event) is called only on a connection that was passed the
\* timeout through on_new_timeout, a timeout requested by a connection that
\* was removed is not delivered to the connection that has its token now, and
\* a timeout requested through the broadcast Sender fires on each connection
\* it was announced to.
C30_TimeoutsReachTheirConnections ==
    /\ TimeoutOnlyAnnounced
    /\ TimeoutOnlyRequested
    /\ BroadcastFires

-----------------------------------------------------------------------------
(* SpecFrag: one open connection receiving fragmented messages and Close   *)
(* frames while its owner writes, sends commands through the queue and     *)
(* reports errors.                                                         *)

\* Frames one connection receives over its life (SpecFrag).
MaxFragRx == 2

\* A first fragment, a middle one, a last one, a whole message, and a
\* second first fragment of the other data opcode.
FragFirst == FrameMessage(<<1>>, "Text", FALSE)
FragMiddle == FrameMessage(<<2>>, "Continue", FALSE)
FragLast == FrameMessage(<<3>>, "Continue", TRUE)
FragOther == FrameMessage(<<4>>, "Binary", FALSE)
FragFrames ==
    {FragFirst, FragMiddle, FragLast, FragOther, RxText, RxClose, RxCloseOther,
     FramePing(<<9>>)}

\* The commands of the owner: a message, a ping or a close for the
\* connection, a close for all connections, a shutdown.
FragCommands(c) ==
    {Command(c.token, c.connection_id, Signal(k), 1, c.calls + 1) :
       k \in {"Message", "Ping", "Close"}}
    \cup {Command(ALL, 0, Signal(k), 1, c.calls + 1) : k \in {"Close", "Shutdown"}}

\* handle_event, readable, the stream holding one more frame.
FragRead(t) ==
    /\ "readable" \in connections[t].events
    /\ connections[t].rx < MaxFragRx
    /\ \E f \in FragFrames, masks \in ReactorMasks :
          IoStep(t, "read", Data(<<f>>), "None", "Ok",
                 after_read(connections[t], {"readable"}, Data(<<f>>), masks))

\* handle_event, writable, the stream taking all, half or none of the bytes.
FragWrite(t) ==
    /\ "writable" \in connections[t].events
    /\ \E wr \in WriteOutcomes(Remaining(connections[t])), masks \in ReactorMasks :
          IoStep(t, "write", wr, "None", "Ok",
                 after_write(connections[t], {"writable"}, wr, masks))

\* handle_queue for one command of the owner.
FragQueue(t) ==
    /\ connections[t].calls < MaxErrors
    /\ \E cmd \in FragCommands(connections[t]), masks \in ReactorMasks :
         LET handled(hq) ==
                 /\ connections' = [hq.connections EXCEPT ![t].calls = @ + 1]
                 /\ rstate' = hq.state
                 /\ last' = [op |-> "queue", token |-> t, rd |-> "none",
                             hs |-> "Empty", frames |-> <<>>,
                             kind |-> cmd.signal.kind, sock |-> "Ok",
                             before |-> connections[t],
                             after |-> hq.connections[t]]
         IN  handled(handle_queue(connections, timer, rstate, cmd, masks, {}))
    /\ UNCHANGED <<next_connection_id, listener, queue, loop, lost, timer,
                   produced, taken>>

NextFrag ==
    \E t \in Tokens :
       /\ Occupied(t)
       /\ connections[t].events \cap {"readable", "writable"} # {}
       /\ ~connections[t].panicked
       /\ \/ FragRead(t)
          \/ FragWrite(t)
          \/ FragQueue(t)
          \/ IoError(t)

SpecFrag == InitConn /\ [][NextFrag]_vars

-----------------------------------------------------------------------------
(* Properties of the input path and of the closing handshake (SpecFrag).   *)

\* The step was a read of one frame by a connection that handles frames.
FragReadStep ==
    /\ last.op = "read"
    /\ last.before.state \in {"Open", "AwaitingClose"}

\* fragments holds a first frame of a data opcode, then non-final Continues.
WellFormed(fragments) ==
    fragments # <<>> =>
       /\ fragments[1].opcode \in {"Text", "Binary"}
       /\ \A i \in 2..Len(fragments) :
             fragments[i].opcode = "Continue" /\ ~fragments[i].finished

\* The frame read does not fit the fragments held: a non-final Continue with
\* none held, or a non-final Text or Binary with some held.
Misplaced(f, fragments) ==
    /\ ~f.finished
    /\ \/ f.opcode = "Continue" /\ fragments = <<>>
       \/ f.opcode \in {"Text", "Binary"} /\ fragments # <<>>

\* The step ended in on_error with a Protocol error, fragments untouched.
FragRejected ==
    /\ last.after.fragments = last.before.fragments
    /\ last.after.handler.errors =
          Append(last.before.handler.errors, "Protocol")

\* C31: fragments, when not empty, is a first Text or Binary frame followed
\* by non-final Continue frames; a non-final Continue received with no
\* fragments held, and a non-final Text or Binary received with fragments
\* held, is rejected with a Protocol error and not appended.
C31_FragmentsWellFormed ==
    /\ \A t \in Tokens : Occupied(t) => WellFormed(connections[t].fragments)
    /\ (FragReadStep /\ Misplaced(last.frames[1], last.before.fragments))
          => FragRejected

\* C32: fragments is non-empty only in Open and RespondingClose; no partly
\* assembled message is left once the connection is AwaitingClose or
\* FinishedClose, also when a local close or an error closes the connection
\* in the middle of a fragmented message.
C32_FragmentsOnlyWhileOpen ==
    \A t \in Tokens :
       (Occupied(t) /\ connections[t].fragments # <<>>)
          => connections[t].state \in {"Open", "RespondingClose"}

\* The step was a read that brought the peer's Close frame to a connection
\* in AwaitingClose.
CloseWhileAwaiting ==
    /\ last.op = "read"
    /\ last.before.state = "AwaitingClose"
    /\ last.frames[1].opcode = "Close"

\* C33: a connection in AwaitingClose that receives the peer's Close frame,
\* with a valid or an invalid code, is in FinishedClose afterwards; a server
\* then wants no events, a client stays registered.
C33_PeerCloseFinishes ==
    CloseWhileAwaiting =>
       /\ last.after.state = "FinishedClose"
       /\ is_server(last.after) => last.after.events = {}
       /\ is_client(last.after) =>
             last.after.events \cap {"readable", "writable"} # {}

\* The Close frames the connection has buffered so far.
ClosesBuffered(c) == {i \in 1..Len(c.wire) : c.wire[i].opcode = "Close"}

\* C34 as stated: a connection replying to the peer's Close enters
\* FinishedClose only after every byte of its own Close frame has been
\* written; while a byte of it is unsent the state is RespondingClose.
C34_FinishedOnlyAfterFlush ==
    \A t \in Tokens :
       (/\ Occupied(t)
        /\ connections[t].state \in {"RespondingClose", "FinishedClose"}
        /\ ClosesBuffered(connections[t]) # {}
        /\ Unsent(connections[t].out_buffer) # <<>>)
          => connections[t].state = "RespondingClose"

\* The step was a read that brought the peer's Close frame to an Open
\* connection.
CloseWhileOpen ==
    /\ last.op = "read"
    /\ last.before.state = "Open"
    /\ last.frames[1].opcode = "Close"

\* The step was a write that the stream accepted, on a server in
\* FinishedClose.
ServerFlush ==
    /\ last.op = "write"
    /\ last.rd = "Wrote"
    /\ last.before.state = "FinishedClose"
    /\ is_server(last.before)

\* C34, amended: a connection replying to the peer's Close is in
\* FinishedClose when the read that brought the peer's Close returns, its
\* own Close frame buffered and not yet written; RespondingClose lasts only
\* within that read.  A server in FinishedClose keeps its write interest
\* while bytes are unsent and clears its events on the write that sends the
\* last of them.
C34_FinishedWhenBuffered ==
    /\ \A t \in Tokens :
          Occupied(t) => connections[t].state # "RespondingClose"
    /\ CloseWhileOpen => last.after.state = "FinishedClose"
    /\ ServerFlush =>
          IF Unsent(last.after.out_buffer) = <<>>
          THEN last.after.events = {}
          ELSE "writable" \in last.after.events

\* A server in FinishedClose has written part of its Close frame and waits
\* to write the rest.
C34_Witness ==
    /\ ServerFlush
    /\ ClosesBuffered(last.after) # {}
    /\ Unsent(last.after.out_buffer) # <<>>
    /\ last.after.out_buffer.pos > 0
    /\ "writable" \in last.after.events

-----------------------------------------------------------------------------
(* SpecBatch: the reactor of SpecStale with a second producer, so that a   *)
(* timeout can be pending for a connection another command has ended.      *)

\* Sender::send from a second thread.
SendBatch == SendCommand(2, Senders, {"Message"}, MaxCommands)

NextBatch ==
    \/ Listen
    \/ Connect
    \/ Run
    \/ PollStale
    \/ EndBatch
    \/ AcceptEvent
    \/ TimerEvent
    \/ QueueEvent
    \/ QueueRecv
    \/ QueueDone
    \/ ConnEventQ
    \/ SendStale
    \/ SendBatch

SpecBatch == Init /\ [][NextBatch]_vars

\* C35: the I/O readiness event the reactor is about to handle is for a
\* token whose slot holds a connection; no connection an earlier event of
\* the batch removed is indexed by a later event of the batch.
C35_EventsFindTheirConnection ==
    (/\ loop.pc = "batch"
     /\ loop.pending # <<>>
     /\ Head(loop.pending) \in Tokens)
       => Occupied(Head(loop.pending))

-----------------------------------------------------------------------------
(* Properties of the reactor's commands (Spec).                            *)

\* Handling the command calls send_close on a connection in Connecting:
\* a Close for that connection, a broadcast Close, or a Shutdown.
ClosesConnecting(cmd) ==
    \E t \in Tokens :
       /\ Occupied(t)
       /\ is_connecting(connections[t])
       /\ \/ cmd.signal.kind = "Shutdown"
          \/ cmd.signal.kind = "Close" /\ cmd.token = ALL
          \/ /\ cmd.signal.kind = "Close"
             /\ cmd.token = t
             /\ cmd.connection_id = connections[t].connection_id

\* C36: send_close is never invoked on a connection that is Connecting,
\* whatever commands are queued and whenever: no command the reactor takes
\* from the queue is a Close or a Shutdown reaching a connection whose
\* handshake has not completed.
C36_NoCloseWhileConnecting ==
    [][(loop.pc = "queue" /\ queue # <<>> /\ taken' # taken)
          => ~ClosesConnecting(Head(queue))]_vars

-----------------------------------------------------------------------------
(* Properties of a failed send (SpecConn).                                 *)

\* The unsent bytes the connection of the last call held before the call:
\* the frames buffered before it, less the bytes the stream has taken.
UnsentBefore ==
    Drop(Concat([i \in 1..last.before |-> Format(Conn(last.token).wire[i])]),
         Len(Conn(last.token).sent))

\* C37: send_message is all-or-nothing: when it returns an error the unsent
\* bytes of the out buffer are what they were before the call, so no start
\* of a fragmented message is left to be written without its remaining
\* fragments.
C37_SendMessageAllOrNothing ==
    (last.op = "send_message" /\ ~last.r.ok)
       => Unsent(Conn(last.token).out_buffer) = UnsentBefore

-----------------------------------------------------------------------------
(* SpecEarly: one connection from Connection::new on, with a message sent  *)
(* to it through the queue at any time, also before its handshake is done. *)
(* SpecEarlyFair adds that a stream which stays ready to take the bytes    *)
(* left is written to.                                                     *)

\* handle_queue for a Signal::Message addressed to the connection.
EarlySend(t) ==
    /\ connections[t].calls < MaxErrors
    /\ \E masks \in ReactorMasks :
         LET cmd == Command(t, connections[t].connection_id, Signal("Message"),
                            1, 1)
             handled(hq) ==
                 /\ connections' = [hq.connections EXCEPT ![t].calls = @ + 1]
                 /\ last' = [op |-> "queue", token |-> t, rd |-> "none",
                             hs |-> "Empty", frames |-> <<>>,
                             kind |-> "Message", sock |-> "Ok",
                             before |-> connections[t],
                             after |-> hq.connections[t]]
         IN  handled(handle_queue(connections, timer, rstate, cmd, masks, {}))
    /\ ConnUnchanged

\* handle_event, writable, the stream taking every byte that is left.
EarlyFlush(t) ==
    /\ "writable" \in connections[t].events
    /\ \E masks \in ReactorMasks :
          IoStep(t, "write", Wrote(Remaining(connections[t])), "None", "Ok",
                 after_write(connections[t], {"writable"},
                             Wrote(Remaining(connections[t])), masks))

\* The reactor keeps the connection: it wants to read or write.
Kept(t) ==
    /\ Occupied(t)
    /\ connections[t].events \cap {"readable", "writable"} # {}
    /\ ~connections[t].panicked

NextEarly ==
    \E t \in Tokens :
       /\ Kept(t)
       /\ \/ IoRead(t)
          \/ IoWrite(t)
          \/ EarlySend(t)

SpecEarly == InitIo /\ [][NextEarly]_vars

SpecEarlyFair ==
    SpecEarly /\ WF_vars(\E t \in Tokens : Kept(t) /\ EarlyFlush(t))

\* No byte of a frame is written while the connection is Connecting or before
\* the handshake bytes are written out: until then every frame buffered is
\* whole in the out buffer.
FramesWaitForHandshake ==
    \A t \in Tokens :
       Occupied(t) =>
          /\ is_connecting(Conn(t)) =>
                /\ Conn(t).sent = <<>>
                /\ Unsent(Conn(t).out_buffer) = Stream(Conn(t))
          /\ Conn(t).sent # <<>> => Conn(t).hs_pos = HandshakeLen

\* An Open connection the reactor keeps holds unsent bytes.
Pending(t) ==
    /\ Kept(t)
    /\ Conn(t).state = "Open"
    /\ Unsent(Conn(t).out_buffer) # <<>>

\* The bytes are written, or the connection has left Open or the reactor.
Flushed(t) ==
    \/ ~Kept(t)
    \/ Conn(t).state # "Open"
    \/ Unsent(Conn(t).out_buffer) = <<>>

\* C38 as stated: only handshake bytes are written while Connecting, a
\* message queued before the handshake completes stays in the out buffer
\* until the handshake bytes are written and the state has left Connecting,
\* and once the connection is Open with a writable stream the frame is
\* eventually written.
C38_QueuedFrameWritten ==
    /\ []FramesWaitForHandshake
    /\ \A t \in Tokens : Pending(t) ~> Flushed(t)

\* What the code does keep: the frame is eventually written once the
\* handshake has completed with on_open called.  After a 301 or 302 response
\* the connection is Open without write interest and the frame stays in the
\* out buffer.
FrameWrittenOnceOpened ==
    /\ []FramesWaitForHandshake
    /\ \A t \in Tokens :
          (Pending(t) /\ Conn(t).handler.opened > 0) ~> Flushed(t)

\* A frame buffered while Connecting was written after on_open: the stream
\* has taken all of it.
QueuedFrameFlushed ==
    /\ last.op = "write"
    /\ last.before.handler.opened > 0
    /\ last.before.sent = <<>>
    /\ last.before.wire # <<>>
    /\ last.before.calls > 0
    /\ last.after.sent = Stream(last.after)
    /\ \E t \in Tokens : Occupied(t) /\ Conn(t) = last.after

\* The reactor's step called send_message, send_ping, send_pong, send_close
\* or write: a command from the queue, a write past the handshake, or a read
\* past the handshake of a Ping or a Close frame, which read_frames answers
\* with send_pong or send_close.
CalledSend ==
    \/ last.op = "queue"
    \/ last.op = "write" /\ ~is_connecting(last.before)
    \/ /\ last.op = "read"
       /\ ~is_connecting(last.before)
       /\ \E i \in 1..Len(last.frames) :
             last.frames[i].opcode \in {"Ping", "Close"}

\* The calls of the step returned Ok: on_error was not called.
SentOk ==
    /\ CalledSend
    /\ last.after.handler.errors = last.before.handler.errors

C40_OneCloseAndLast ==
    \A t \in Tokens :
       Occupied(t) =>
          /\ Cardinality(ClosesBuffered(Conn(t))) <= 1
          /\ \A i \in ClosesBuffered(Conn(t)) : i = Len(Conn(t).wire)

=============================================================================
